---- MODULE Spec2Model ----
(***************************************************************************)
(* Clixon datastore engine (clixon_datastore.c): the registry of database *)
(* elements (db_elmnt), the cached XML trees they own, the advisory lock, *)
(* and the backing files in single-file (<db>_db) or multi-file           *)
(* (<db>.d/0.xml) layout.                                                 *)
(***************************************************************************)
EXTENDS Integers, Sequences, FiniteSets, TLC

\* ---------------------------------------------------------------- bounds
MaxAddr == 2      \* number of heap cells for XML trees
MaxSession == 2   \* session ids are 1..MaxSession
MaxKids == 1      \* children of a cached top node
MaxPrefix == 2    \* namespace prefixes are 1..MaxPrefix (and the absent prefix)
MaxUri == 2       \* namespace URIs are 1..MaxUri
MaxDecl == 2      \* namespace declarations (xmlns attributes) in an XML tree

\* ------------------------------------------------------------- constants
DBs == {"candidate", "running"}
Sessions == 1..MaxSession
Addrs == 1..MaxAddr
Tags == {1}        \* the tag of a child element
Now == 1           \* gettimeofday(): some time other than the zeroed timeval
NULL == 0
TopByte == 0      \* the byte(s) of the top-level element in a stored document

RECURSIVE SeqsUpTo(_)
SeqsUpTo(n) == IF n = 0 THEN {<<>>}
               ELSE SeqsUpTo(n - 1) \cup
                    {Append(s, t) : s \in {q \in SeqsUpTo(n - 1) : Len(q) = n - 1}, t \in Tags}
KidSeqs == SeqsUpTo(MaxKids)

\* --------------------------------------------------------------- state
VARIABLES reg,    \* registry: database name -> db_elmnt (partial function)
          heap,   \* XML trees by address
          fs,     \* file system below CLICON_XMLDB_DIR
          multi,  \* option CLICON_XMLDB_MULTI
          ub,     \* undefined behaviour (use after free, double free) occurred
          last,   \* the last API call and its return value
          nsc,    \* a namespace context: a cvec of (prefix, URI) in insertion order
          nshist, \* what was added to nsc since its init: the prefixes in the
                  \* order of their first add, the URI last added for each,
                  \* and the prefixes added more than once
          xtree,     \* an XML tree: the elements on the path from the top to x,
                     \* each with its xmlns attributes and namespace cache
          nsdefault, \* _USE_NAMESPACE_NETCONF_DEFAULT
          yspec,     \* the loaded YANG modules, in load order
          copt,      \* the option store (clicon_options)
          cdat,      \* the data store (clicon_data)
          sethist,   \* for each store and key, the value of the last set that no
                     \* delete followed, and the keys a set gave a new value
          oidreg     \* the OIDs registered with the SNMP agent, in order

vars == <<reg, heap, fs, multi, ub, last, nsc, nshist, xtree, nsdefault, yspec, copt, cdat, sethist,
         oidreg>>

dsvars == <<reg, heap, fs, multi, ub>>

Prefixes == {NULL} \cup (1..MaxPrefix)   \* NULL: the absent (default) prefix
Uris == 1..MaxUri
NsHist0 == [order |-> <<>>, cur |-> [q \in Prefixes |-> NULL], repl |-> {}]

\* The elements of the tree: 1 is the top (no parent), each other one is the
\* only element child of the one before
XNodes == {1, 2}
XPrefixes == {NULL, 1}     \* the prefixes declared in the tree
XUris == {1, 2}            \* the URIs declared in the tree
NETCONF_BASE_NAMESPACE == 1
NETCONF_BASE_PREFIX == 1

\* An element without attributes; a tree of such elements
XNode0 == [prefix |-> NULL, attrs |-> <<>>, cache |-> <<>>]
XTree0 == [n \in XNodes |-> XNode0]

\* The keys and values of the option store and of the data store
HashKeys == {1, 2}
HashVals == {1, 2}
SetHist0 == [opt |-> [k \in HashKeys |-> NULL], dat |-> [k \in HashKeys |-> NULL],
             over |-> {}]

\* The parts of the state that the datastore API does not touch, at start
InitRest ==
    /\ nsc = <<>>
    /\ nshist = NsHist0
    /\ xtree = XTree0
    /\ nsdefault = FALSE
    /\ yspec = <<>>
    /\ copt = << >>
    /\ cdat = << >>
    /\ sethist = SetHist0
    /\ oidreg = <<>>

\* struct db_elmnt, zero-initialised ("db_elmnt de0 = {0,}")
De0 == [de_xml |-> NULL, de_id |-> 0, de_tv |-> 0,
        de_modified |-> 0, de_empty |-> 0, de_volatile |-> 0]

\* A heap cell: a top-level cxobj with its children, or free memory
FreeCell == [live |-> FALSE, name |-> "", kids |-> <<>>]
Cell(n, k) == [live |-> TRUE, name |-> n, kids |-> k]

\* A file: absent, or present with its bytes
NoFile == [ex |-> FALSE, data |-> <<>>]
File(d) == [ex |-> TRUE, data |-> d]
NoDir == [legacy |-> NoFile, dir |-> FALSE, root |-> NoFile, aux |-> NoFile]

\* clicon_db_elmnt_get: NULL when the hash has no such key
clicon_db_elmnt_get(r, db) == IF db \in DOMAIN r THEN r[db] ELSE De0
Registered(r, db) == db \in DOMAIN r

\* clicon_db_elmnt_set: clicon_hash_add(cdat, db, de, sizeof(*de))
clicon_db_elmnt_set(r, db, de) ==
    [d \in (DOMAIN r) \cup {db} |-> IF d = db THEN de ELSE r[d]]

\* xmldb_db2file1: which file of fs[db] backs the database
xmldb_db2file1(m) == IF m THEN "root" ELSE "legacy"

\* xmldb_db2file
xmldb_db2file(m) == xmldb_db2file1(m)

\* lstat/stat of the backing file
FileOf(f, m, db) == IF xmldb_db2file(m) = "root" THEN f[db].root ELSE f[db].legacy

\* xml_free on a pointer: a free of a non-live cell is a double free
xml_free(h, x) == [heap |-> [h EXCEPT ![x] = FreeCell], ub |-> ~h[x].live]

\* xmldb_islocked
xmldb_islocked(r, db) == IF ~Registered(r, db) THEN 0 ELSE r[db].de_id

\* xmldb_cache_get
xmldb_cache_get(r, db) == IF ~Registered(r, db) THEN NULL ELSE r[db].de_xml

\* xmldb_exists without the test of st_size
xmldb_exists_nosize(f, m, db) == IF ~FileOf(f, m, db).ex THEN 0 ELSE 1

\* xmldb_exists
xmldb_exists(f, m, db) ==
    IF ~FileOf(f, m, db).ex THEN 0
    ELSE IF Len(FileOf(f, m, db).data) = 0 THEN 0 ELSE 1

St(r, h, f, rv, u) == [reg |-> r, heap |-> h, fs |-> f, ret |-> rv, ub |-> u]

\* xmldb_lock that refuses to take over a database another session holds
xmldb_lock_held(r, h, f, db, id, now) ==
    LET de0 == clicon_db_elmnt_get(r, db)
        de1 == IF de0.de_id # 0 THEN de0 ELSE [de0 EXCEPT !.de_id = id, !.de_tv = now]
    IN St(clicon_db_elmnt_set(r, db, de1), h, f, 0, FALSE)

\* xmldb_lock
xmldb_lock(r, h, f, db, id, now) ==
    LET de0 == clicon_db_elmnt_get(r, db)
        de1 == [de0 EXCEPT !.de_id = id, !.de_tv = now]
    IN St(clicon_db_elmnt_set(r, db, de1), h, f, 0, FALSE)

\* xmldb_unlock
xmldb_unlock(r, h, f, db) ==
    IF Registered(r, db)
    THEN St(clicon_db_elmnt_set(r, db, [r[db] EXCEPT !.de_id = 0, !.de_tv = 0]), h, f, 0, FALSE)
    ELSE St(r, h, f, 0, FALSE)

\* xmldb_unlock_all without the test of the holder
xmldb_unlock_all_any(r, h, f, id) ==
    St([d \in DOMAIN r |-> [r[d] EXCEPT !.de_id = 0, !.de_tv = 0]], h, f, 0, FALSE)

\* xmldb_unlock_all
xmldb_unlock_all(r, h, f, id) ==
    St([d \in DOMAIN r |-> IF r[d].de_id = id
                           THEN [r[d] EXCEPT !.de_id = 0, !.de_tv = 0]
                           ELSE r[d]], h, f, 0, FALSE)

\* unlink(path) in place of truncate
Truncate_unlink(fl) == NoFile

\* truncate(path, 0) of an existing file
Truncate(fl) == IF fl.ex THEN File(<<>>) ELSE fl

\* open with O_TRUNC
OpenCreat_trunc(fl) == File(<<>>)

\* open(filename, O_CREAT|O_WRONLY, S_IRWXU) followed by close: creates an
\* absent file with zero length, leaves an existing file as it is
OpenCreat(fl) == IF fl.ex THEN fl ELSE File(<<>>)

\* the backing file of db replaced by fl
SetFile(f, m, db, fl) ==
    IF xmldb_db2file(m) = "root" THEN [f EXCEPT ![db].root = fl]
    ELSE [f EXCEPT ![db].legacy = fl]

\* xmldb_clear that only drops the cache
xmldb_clear_cacheonly(r, h, f, db) ==
    IF Registered(r, db)
    THEN LET xt == r[db].de_xml
             fr == IF xt # NULL THEN xml_free(h, xt) ELSE [heap |-> h, ub |-> FALSE]
         IN St([r EXCEPT ![db].de_xml = NULL], fr.heap, f, 0, fr.ub)
    ELSE St(r, h, f, 0, FALSE)

\* xmldb_clear
xmldb_clear(r, h, f, db) ==
    IF Registered(r, db)
    THEN LET xt == r[db].de_xml
             fr == IF xt # NULL THEN xml_free(h, xt) ELSE [heap |-> h, ub |-> FALSE]
             de == [r[db] EXCEPT !.de_xml = NULL, !.de_modified = 0,
                                 !.de_id = 0, !.de_tv = 0]
         IN St([r EXCEPT ![db] = de], fr.heap, f, 0, fr.ub)
    ELSE St(r, h, f, 0, FALSE)

\* xmldb_delete that also removes the element from the registry
xmldb_delete_drop(r, h, f, m, db) ==
    LET c == xmldb_clear(r, h, f, db)
    IN St([d \in (DOMAIN r) \ {db} |-> c.reg[d]], c.heap, f, 0, c.ub)

\* xmldb_delete
xmldb_delete(r, h, f, m, db) ==
    LET c == xmldb_clear(r, h, f, db)
        f1 == SetFile(f, m, db, Truncate(FileOf(f, m, db)))
        f2 == IF m /\ f1[db].dir
              THEN [f1 EXCEPT ![db].root = Truncate(f1[db].root),
                              ![db].aux = Truncate(f1[db].aux)]
              ELSE f1
    IN St(c.reg, c.heap, f2, 0, c.ub)

\* xmldb_create that keeps the cache
xmldb_create_keepcache(r, h, f, m, db) ==
    LET f1 == IF m /\ ~f[db].dir THEN [f EXCEPT ![db].dir = TRUE] ELSE f
        f2 == SetFile(f1, m, db, OpenCreat(FileOf(f1, m, db)))
    IN St(r, h, f2, 0, FALSE)

\* xmldb_create
xmldb_create(r, h, f, m, db) ==
    LET xt == xmldb_cache_get(r, db)
        fr == IF xt # NULL THEN xml_free(h, xt) ELSE [heap |-> h, ub |-> FALSE]
        r1 == IF Registered(r, db) THEN [r EXCEPT ![db].de_xml = NULL] ELSE r
        f1 == IF m /\ ~f[db].dir THEN [f EXCEPT ![db].dir = TRUE] ELSE f
        f2 == SetFile(f1, m, db, OpenCreat(FileOf(f1, m, db)))
    IN St(r1, fr.heap, f2, 0, fr.ub)

\* xmldb_db_reset without the delete
xmldb_db_reset_nodelete(r, h, f, m, db) == xmldb_create(r, h, f, m, db)

\* xmldb_db_reset
xmldb_db_reset(r, h, f, m, db) ==
    LET d == IF xmldb_exists(f, m, db) = 1 THEN xmldb_delete(r, h, f, m, db)
             ELSE St(r, h, f, 0, FALSE)
        c == xmldb_create(d.reg, d.heap, d.fs, m, db)
    IN IF d.ret # 0 THEN [d EXCEPT !.ret = -1]
       ELSE St(c.reg, c.heap, c.fs, IF c.ret < 0 THEN -1 ELSE 0, d.ub \/ c.ub)

\* xmldb_disconnect that also releases the locks
xmldb_disconnect_unlock(r, h, f) ==
    LET ptrs == {r[d].de_xml : d \in DOMAIN r} \ {NULL}
    IN St([d \in DOMAIN r |-> [r[d] EXCEPT !.de_xml = NULL, !.de_id = 0, !.de_tv = 0]],
          [a \in Addrs |-> IF a \in ptrs THEN FreeCell ELSE h[a]],
          f, 0, \E a \in ptrs : ~h[a].live)

\* xmldb_disconnect
xmldb_disconnect(r, h, f) ==
    LET ptrs == {r[d].de_xml : d \in DOMAIN r} \ {NULL}
        twice == \E d1, d2 \in DOMAIN r :
                    d1 # d2 /\ r[d1].de_xml # NULL /\ r[d1].de_xml = r[d2].de_xml
    IN St([d \in DOMAIN r |-> [r[d] EXCEPT !.de_xml = NULL]],
          [a \in Addrs |-> IF a \in ptrs THEN FreeCell ELSE h[a]],
          f, 0, twice \/ \E a \in ptrs : ~h[a].live)

\* xml_new(name, NULL, CX_ELMNT) at address a: a fresh node without children
xml_new(h, a, n) == [h EXCEPT ![a] = Cell(n, <<>>)]

\* xml_copy(x1, x2): the children of x1 are cloned into x2
xml_copy(h, src, x2) == [h EXCEPT ![x2].kids = src.kids]

\* clicon_file_copy(src, target): fails when src cannot be stat'ed, otherwise
\* target is created or truncated and receives the bytes of src
clicon_file_copy(src, dst) == IF src.ex THEN File(src.data) ELSE dst

\* clicon_dir_copy(srcdir, dstdir): every regular file of srcdir is copied
\* to the file of the same name in dstdir
clicon_dir_copy(f, from, to) ==
    [f EXCEPT ![to].root = clicon_file_copy(f[from].root, f[to].root),
              ![to].aux = clicon_file_copy(f[from].aux, f[to].aux)]

CopyFails == {"none", "xml_copy", "mkdir", "file_copy", "dir_copy"}

\* malloc: the lowest free address, NULL when the heap is exhausted
Alloc(h) == IF \A a \in Addrs : h[a].live THEN NULL
            ELSE CHOOSE a \in Addrs : ~h[a].live /\ \A b \in Addrs : ~h[b].live => a <= b

\* The heap of xmldb_copy after the old tree of "to" has been released
\* (the two branches of the cache copy that call xml_free(x2))
CopyFree(r, h, from, to) ==
    LET x1 == xmldb_cache_get(r, from)
        x2 == xmldb_cache_get(r, to)
    IN IF x2 # NULL THEN xml_free(h, x2) ELSE [heap |-> h, ub |-> FALSE]

\* A cache copy that shares the source tree instead of cloning it
CopyTree_share(r, h, from, to, a, xcopy, g) ==
    LET x1 == xmldb_cache_get(r, from)
        fr == CopyFree(r, h, from, to)
    IN [heap |-> fr.heap, x2 |-> x1, done |-> FALSE, ub |-> fr.ub]

\* A cache copy that leaves the destination alone when the source has no tree
CopyTree_keep(r, h, from, to, a, xcopy, g) ==
    LET x1 == xmldb_cache_get(r, from)
        fr == CopyFree(r, h, from, to)
        uaf == x1 # NULL /\ ~fr.heap[x1].live
        src == IF uaf THEN Cell("config", g) ELSE fr.heap[x1]
    IN IF x1 = NULL THEN [heap |-> h, x2 |-> xmldb_cache_get(r, to), done |-> FALSE, ub |-> FALSE]
       ELSE IF a = NULL THEN [heap |-> fr.heap, x2 |-> NULL, done |-> TRUE, ub |-> fr.ub \/ uaf]
       ELSE IF ~xcopy THEN [heap |-> xml_new(fr.heap, a, src.name), x2 |-> a,
                            done |-> TRUE, ub |-> fr.ub \/ uaf]
       ELSE [heap |-> xml_copy(xml_new(fr.heap, a, src.name), src, a), x2 |-> a,
             done |-> FALSE, ub |-> fr.ub \/ uaf]

\* The cache copy of xmldb_copy: the four cases on (x1, x2).  a: the address
\* xml_new returns (NULL: no memory); xcopy: whether xml_copy succeeds; g: what
\* a read of a freed source tree yields.  Gives the heap, the new x2, whether
\* the code jumps to done, and whether freed memory was used.
CopyTree(r, h, from, to, a, xcopy, g) ==
    LET x1 == xmldb_cache_get(r, from)
        fr == CopyFree(r, h, from, to)
        \* xml_name(x1) and xml_copy(x1, x2) read x1
        uaf == x1 # NULL /\ ~fr.heap[x1].live
        src == IF uaf THEN Cell("config", g) ELSE fr.heap[x1]
    IN IF x1 = NULL THEN [heap |-> fr.heap, x2 |-> NULL, done |-> FALSE, ub |-> fr.ub]
       ELSE IF a = NULL THEN [heap |-> fr.heap, x2 |-> NULL, done |-> TRUE, ub |-> fr.ub \/ uaf]
       ELSE IF ~xcopy THEN [heap |-> xml_new(fr.heap, a, src.name), x2 |-> a,
                            done |-> TRUE, ub |-> fr.ub \/ uaf]
       ELSE [heap |-> xml_copy(xml_new(fr.heap, a, src.name), src, a), x2 |-> a,
             done |-> FALSE, ub |-> fr.ub \/ uaf]

\* xmldb_copy with the element of `to` taken over from `from`
xmldb_copy_from(r, h, f, m, from, to, a, fail, g) ==
    LET ct == CopyTree(r, h, from, to, a, fail # "xml_copy", g)
        de0 == [clicon_db_elmnt_get(r, from) EXCEPT !.de_xml = ct.x2]
        r1 == clicon_db_elmnt_set(r, to, de0)
    IN IF ct.done THEN St(r, ct.heap, f, -1, ct.ub)
       ELSE St(r1, ct.heap, f, IF FileOf(f, m, from).ex /\ fail = "none" THEN 0 ELSE -1, ct.ub)

\* xmldb_copy.  fail: the step that fails, if it is executed
xmldb_copy(r, h, f, m, from, to, a, fail, g) ==
    LET ct == CopyTree(r, h, from, to, a, fail # "xml_copy", g)
        de0 == [clicon_db_elmnt_get(r, to) EXCEPT !.de_xml = ct.x2]
        r1 == clicon_db_elmnt_set(r, to, de0)
        f1 == IF m /\ ~f[to].dir THEN [f EXCEPT ![to].dir = TRUE] ELSE f
        f2 == SetFile(f1, m, to, clicon_file_copy(FileOf(f1, m, from), FileOf(f1, m, to)))
        f3 == IF m THEN clicon_dir_copy(f2, from, to) ELSE f2
    IN IF ct.done THEN St(r, ct.heap, f, -1, ct.ub)
       ELSE IF m /\ ~f[to].dir /\ fail = "mkdir" THEN St(r, ct.heap, f, -1, ct.ub)
       ELSE IF ~FileOf(f1, m, from).ex \/ fail = "file_copy" THEN St(r1, ct.heap, f1, -1, ct.ub)
       ELSE IF m /\ fail = "dir_copy" THEN St(r1, ct.heap, f2, -1, ct.ub)
       ELSE St(r1, ct.heap, f3, 0, ct.ub)

\* A stored document: the top-level element followed by its children
Ser(kids) == <<TopByte>> \o kids

\* The children of a stored document; an empty file gives an empty tree
Parse(data) == IF Len(data) = 0 THEN <<>> ELSE Tail(data)

\* The stored document of db: the backing file, in multi-file mode followed
\* by the auxiliary content of <db>.d
DocOf(f, m, db) ==
    IF m /\ f[db].aux.ex THEN f[db].root.data \o f[db].aux.data ELSE FileOf(f, m, db).data

\* Cache miss of the read path: the stored document is parsed into a new tree
\* at address a, which becomes the cache of db
xmldb_load(r, h, f, m, db, a) ==
    LET de0 == [clicon_db_elmnt_get(r, db) EXCEPT !.de_xml = a]
    IN St(clicon_db_elmnt_set(r, db, de0),
          [h EXCEPT ![a] = Cell("config", Parse(DocOf(f, m, db)))], f, 0, FALSE)

\* Write path: an edit of the cached tree (a child is added, or the last
\* child is removed) in place
xmldb_put(r, h, f, db, kids) ==
    LET x == r[db].de_xml
    IN IF ~h[x].live THEN St(r, h, f, -1, TRUE)
       ELSE St(r, [h EXCEPT ![x].kids = kids], f, 0, FALSE)

\* Write path: the cached tree is written to the backing file(s); when the
\* whole tree goes to <db>.d/0.xml an auxiliary file holds nothing any more
xmldb_write_cache2file(r, h, f, m, db) ==
    LET x == r[db].de_xml
        f0 == IF m THEN [f EXCEPT ![db].dir = TRUE] ELSE f
        f1 == IF m /\ f0[db].aux.ex THEN [f0 EXCEPT ![db].aux = File(<<>>)] ELSE f0
        f2 == SetFile(f1, m, db, File(Ser(h[x].kids)))
    IN IF ~h[x].live THEN St(r, h, f, -1, TRUE) ELSE St(r, h, f2, 0, FALSE)

\* Write path in multi-file mode when the tree is split: the top-level
\* element goes to <db>.d/0.xml, the children to an auxiliary file of <db>.d
xmldb_multi_write(r, h, f, db) ==
    LET x == r[db].de_xml
        f1 == [f EXCEPT ![db].dir = TRUE, ![db].root = File(Ser(<<>>)),
                        ![db].aux = File(h[x].kids)]
    IN IF ~h[x].live THEN St(r, h, f, -1, TRUE) ELSE St(r, h, f1, 0, FALSE)

\* xmldb_multi_upgrade that copies whether or not <db>.d/0.xml exists
xmldb_multi_upgrade_always(r, h, f, m, db) ==
    LET c == xmldb_create(r, h, f, m, db)
        f1 == c.fs
    IN IF f1[db].legacy.ex
       THEN IF ~f1[db].dir THEN St(c.reg, c.heap, f1, -1, c.ub)
            ELSE St(c.reg, c.heap,
                    [f1 EXCEPT ![db].root = clicon_file_copy(f1[db].legacy, f1[db].root)],
                    0, c.ub)
       ELSE St(c.reg, c.heap, f1, 0, c.ub)

\* xmldb_multi_upgrade that moves the legacy file instead of copying it
xmldb_multi_upgrade_move(r, h, f, m, db) ==
    IF ~f[db].root.ex
    THEN LET c == xmldb_create(r, h, f, m, db)
             f1 == c.fs
         IN IF f1[db].legacy.ex
            THEN IF ~f1[db].dir THEN St(c.reg, c.heap, f1, -1, c.ub)
                 ELSE St(c.reg, c.heap,
                         [f1 EXCEPT ![db].root = clicon_file_copy(f1[db].legacy, f1[db].root),
                                    ![db].legacy = NoFile],
                         0, c.ub)
            ELSE St(c.reg, c.heap, f1, 0, c.ub)
    ELSE St(r, h, f, 0, FALSE)

\* xmldb_multi_upgrade.  stat(tofile) fails with ENOENT when <db>.d or
\* <db>.d/0.xml is absent; clicon_file_copy cannot create its target in a
\* directory that does not exist
xmldb_multi_upgrade(r, h, f, m, db) ==
    IF ~f[db].root.ex
    THEN LET c == xmldb_create(r, h, f, m, db)
             f1 == c.fs
         IN IF c.ret < 0 THEN [c EXCEPT !.ret = -1]
            ELSE IF f1[db].legacy.ex
            THEN IF ~f1[db].dir THEN St(c.reg, c.heap, f1, -1, c.ub)
                 ELSE St(c.reg, c.heap,
                         [f1 EXCEPT ![db].root = clicon_file_copy(f1[db].legacy, f1[db].root)],
                         0, c.ub)
            ELSE St(c.reg, c.heap, f1, 0, c.ub)
    ELSE St(r, h, f, 0, FALSE)

\* xmldb_rename.  newdb, suffix: NULL or a string; the new name is a path
\* other than the backing files of the databases, so a renamed file is no
\* longer the backing file of db; rename(2) fails when the file is absent
xmldb_rename(r, h, f, m, db, newdb, suffix) ==
    IF newdb = NULL /\ suffix = NULL THEN St(r, h, f, -1, FALSE)
    ELSE IF ~FileOf(f, m, db).ex THEN St(r, h, f, -1, FALSE)
    ELSE St(r, h, SetFile(f, m, db, NoFile), 0, FALSE)

\* xmldb_populate that injects the defaults whenever the bind did not fail
xmldb_populate_always(r, db, bind, gd, dr) ==
    IF xmldb_cache_get(r, db) = NULL THEN [ret |-> -1, calls |-> <<>>]
    ELSE IF bind < 0 THEN [ret |-> -1, calls |-> <<"xml_bind_yang">>]
    ELSE IF gd < 0 THEN [ret |-> -1, calls |-> <<"xml_bind_yang", "xml_global_defaults">>]
    ELSE IF dr < 0
    THEN [ret |-> -1, calls |-> <<"xml_bind_yang", "xml_global_defaults", "xml_default_recurse">>]
    ELSE [ret |-> bind, calls |-> <<"xml_bind_yang", "xml_global_defaults", "xml_default_recurse">>]

\* xmldb_populate.  bind, gd, dr: what xml_bind_yang, xml_global_defaults and
\* xml_default_recurse return when called.  Gives the return value and the
\* calls made, in order (the schema references and default values these
\* calls put into the tree are not part of a tree's content here)
xmldb_populate(r, db, bind, gd, dr) ==
    IF xmldb_cache_get(r, db) = NULL THEN [ret |-> -1, calls |-> <<>>]
    ELSE IF bind < 0 THEN [ret |-> -1, calls |-> <<"xml_bind_yang">>]
    ELSE IF bind = 1
    THEN IF gd < 0 THEN [ret |-> -1, calls |-> <<"xml_bind_yang", "xml_global_defaults">>]
         ELSE IF dr < 0
         THEN [ret |-> -1,
               calls |-> <<"xml_bind_yang", "xml_global_defaults", "xml_default_recurse">>]
         ELSE [ret |-> bind,
               calls |-> <<"xml_bind_yang", "xml_global_defaults", "xml_default_recurse">>]
    ELSE [ret |-> bind, calls |-> <<"xml_bind_yang">>]

\* xmldb_modified_get
xmldb_modified_get(r, db) == IF ~Registered(r, db) THEN -1 ELSE r[db].de_modified

\* xmldb_empty_get
xmldb_empty_get(r, db) == IF ~Registered(r, db) THEN -1 ELSE r[db].de_empty

\* xmldb_volatile_get
xmldb_volatile_get(r, db) == IF ~Registered(r, db) THEN -1 ELSE r[db].de_volatile

\* xmldb_modified_set
xmldb_modified_set(r, h, f, db, value) ==
    IF ~Registered(r, db) THEN St(r, h, f, -1, FALSE)
    ELSE St([r EXCEPT ![db].de_modified = value], h, f, 0, FALSE)

\* xmldb_empty_set that registers a database it does not find
xmldb_empty_set_create(r, h, f, db, value) ==
    St(clicon_db_elmnt_set(r, db, [clicon_db_elmnt_get(r, db) EXCEPT !.de_empty = value]),
       h, f, 0, FALSE)

\* xmldb_empty_set
xmldb_empty_set(r, h, f, db, value) ==
    IF ~Registered(r, db) THEN St(r, h, f, -1, FALSE)
    ELSE St([r EXCEPT ![db].de_empty = value], h, f, 0, FALSE)

\* xmldb_volatile_set that writes the modified flag as well
xmldb_volatile_set_both(r, h, f, db, value) ==
    IF ~Registered(r, db) THEN St(r, h, f, -1, FALSE)
    ELSE St([r EXCEPT ![db].de_volatile = value, ![db].de_modified = value], h, f, 0, FALSE)

\* xmldb_volatile_set
xmldb_volatile_set(r, h, f, db, value) ==
    IF ~Registered(r, db) THEN St(r, h, f, -1, FALSE)
    ELSE St([r EXCEPT ![db].de_volatile = value], h, f, 0, FALSE)

Init ==
    /\ reg = << >>
    /\ heap = [a \in Addrs |-> FreeCell]
    /\ multi \in BOOLEAN
    /\ fs = [d \in DBs |-> NoDir]
    /\ ub = FALSE
    /\ last = [op |-> "init", db |-> "candidate", to |-> "candidate", id |-> 0, old |-> 0,
               ret |-> 0, calls |-> <<>>]
    /\ InitRest

\* A call of the API: its result becomes the state; last records the call,
\* its return value and the calls it made to the schema layer
ApplyCalls(r, op, db, to, id, old, calls) ==
    /\ reg' = r.reg
    /\ heap' = r.heap
    /\ fs' = r.fs
    /\ ub' = r.ub
    /\ last' = [op |-> op, db |-> db, to |-> to, id |-> id, old |-> old, ret |-> r.ret,
                calls |-> calls]
    /\ UNCHANGED <<multi, nsc, nshist, xtree, nsdefault, yspec, copt, cdat, sethist, oidreg>>

Apply(r, op, db, to, id, old) == ApplyCalls(r, op, db, to, id, old, <<>>)

Lock == \E db \in DBs, id \in Sessions :
    /\ ~ub
    /\ Apply(xmldb_lock(reg, heap, fs, db, id, Now), "lock", db, db, id, xmldb_islocked(reg, db))

Unlock == \E db \in DBs :
    /\ ~ub
    /\ Apply(xmldb_unlock(reg, heap, fs, db), "unlock", db, db, 0, xmldb_islocked(reg, db))

UnlockAll == \E id \in Sessions :
    /\ ~ub
    /\ Apply(xmldb_unlock_all(reg, heap, fs, id), "unlock_all", "candidate", "candidate", id,
             Cardinality({d \in DOMAIN reg : reg[d].de_id = id}))

Clear == \E db \in DBs :
    /\ ~ub
    /\ Apply(xmldb_clear(reg, heap, fs, db), "clear", db, db, 0, xmldb_islocked(reg, db))

Delete == \E db \in DBs :
    /\ ~ub
    /\ Apply(xmldb_delete(reg, heap, fs, multi, db), "delete", db, db, 0, xmldb_islocked(reg, db))

Create == \E db \in DBs :
    /\ ~ub
    /\ Apply(xmldb_create(reg, heap, fs, multi, db), "create", db, db, 0, xmldb_islocked(reg, db))

Reset == \E db \in DBs :
    /\ ~ub
    /\ Apply(xmldb_db_reset(reg, heap, fs, multi, db), "reset", db, db, 0, xmldb_islocked(reg, db))

Disconnect ==
    /\ ~ub
    /\ Apply(xmldb_disconnect(reg, heap, fs), "disconnect", "candidate", "candidate", 0, 0)

Exists == \E db \in DBs :
    /\ ~ub
    /\ Apply(St(reg, heap, fs, xmldb_exists(fs, multi, db), FALSE), "exists", db, db, 0, 0)

\* The address xml_new yields in a copy when memory is available
CopyAddr(from, to) ==
    IF xmldb_cache_get(reg, from) = NULL THEN NULL ELSE Alloc(CopyFree(reg, heap, from, to).heap)

\* Whether the source tree of a copy is read after it was freed
CopyUaf(from, to) ==
    LET x1 == xmldb_cache_get(reg, from)
    IN x1 # NULL /\ ~CopyFree(reg, heap, from, to).heap[x1].live

\* xmldb_copy when no allocation and no system call fails (a copy still fails
\* when the source file does not exist)
Copy == \E from \in DBs, to \in DBs, g \in KidSeqs :
    /\ ~ub
    /\ Len(g) > 0 => CopyUaf(from, to)
    /\ Apply(xmldb_copy(reg, heap, fs, multi, from, to, CopyAddr(from, to), "none", g),
             "copy", from, to, 0, xmldb_cache_get(reg, to))

\* xmldb_copy when xml_new, xml_copy, mkdir, clicon_file_copy or
\* clicon_dir_copy fails
CopyFail == \E from \in DBs, to \in DBs, a \in Addrs \cup {NULL}, fail \in CopyFails, g \in KidSeqs :
    /\ ~ub
    /\ a \in {NULL, CopyAddr(from, to)}
    /\ \/ fail = "none" /\ a = NULL /\ xmldb_cache_get(reg, from) # NULL
       \/ fail = "xml_copy" /\ a # NULL
       \/ fail = "mkdir" /\ a = CopyAddr(from, to) /\ multi /\ ~fs[to].dir
       \/ fail = "file_copy" /\ a = CopyAddr(from, to) /\ FileOf(fs, multi, from).ex
       \/ fail = "dir_copy" /\ a = CopyAddr(from, to) /\ multi /\ FileOf(fs, multi, from).ex
    /\ Len(g) > 0 => CopyUaf(from, to)
    /\ Apply(xmldb_copy(reg, heap, fs, multi, from, to, a, fail, g),
             "copy", from, to, 0, xmldb_cache_get(reg, to))

Load == \E db \in DBs, a \in Addrs :
    /\ ~ub
    /\ xmldb_cache_get(reg, db) = NULL
    /\ a = Alloc(heap)
    /\ Parse(DocOf(fs, multi, db)) \in KidSeqs
    /\ Apply(xmldb_load(reg, heap, fs, multi, db, a), "load", db, db, 0, 0)

Put == \E db \in DBs, kids \in KidSeqs :
    /\ ~ub
    /\ xmldb_cache_get(reg, db) # NULL
    /\ LET old == heap[reg[db].de_xml].kids
       IN \/ Len(kids) = Len(old) + 1 /\ SubSeq(kids, 1, Len(old)) = old
          \/ Len(old) = Len(kids) + 1 /\ SubSeq(old, 1, Len(kids)) = kids
    /\ Apply(xmldb_put(reg, heap, fs, db, kids), "put", db, db, 0, 0)

Write == \E db \in DBs :
    /\ ~ub
    /\ xmldb_cache_get(reg, db) # NULL
    /\ Apply(xmldb_write_cache2file(reg, heap, fs, multi, db), "write", db, db, 0, 0)

ModifiedSet == \E db \in DBs, v \in 0..1 :
    /\ ~ub
    /\ Apply(xmldb_modified_set(reg, heap, fs, db, v), "modified_set", db, db, v, 0)

EmptySet == \E db \in DBs, v \in 0..1 :
    /\ ~ub
    /\ Apply(xmldb_empty_set(reg, heap, fs, db, v), "empty_set", db, db, v, 0)

VolatileSet == \E db \in DBs, v \in 0..1 :
    /\ ~ub
    /\ Apply(xmldb_volatile_set(reg, heap, fs, db, v), "volatile_set", db, db, v, 0)

ModifiedGet == \E db \in DBs :
    /\ ~ub
    /\ Apply(St(reg, heap, fs, xmldb_modified_get(reg, db), FALSE), "modified_get", db, db, 0, 0)

EmptyGet == \E db \in DBs :
    /\ ~ub
    /\ Apply(St(reg, heap, fs, xmldb_empty_get(reg, db), FALSE), "empty_get", db, db, 0, 0)

VolatileGet == \E db \in DBs :
    /\ ~ub
    /\ Apply(St(reg, heap, fs, xmldb_volatile_get(reg, db), FALSE), "volatile_get", db, db, 0, 0)

\* last.id: the outcome of the bind; last.old: -1 when a default step fails
Populate == \E db \in DBs, bind \in {-1, 0, 1}, gd \in {-1, 0}, dr \in {-1, 0} :
    /\ ~ub
    /\ gd < 0 => dr = 0
    /\ LET p == xmldb_populate(reg, db, bind, gd, dr)
       IN ApplyCalls(St(reg, heap, fs, p.ret, FALSE), "populate", db, db, bind,
                     IF gd < 0 \/ dr < 0 THEN -1 ELSE 0, p.calls)

WriteSplit == \E db \in DBs :
    /\ ~ub
    /\ multi
    /\ xmldb_cache_get(reg, db) # NULL
    /\ Len(heap[reg[db].de_xml].kids) > 0
    /\ Apply(xmldb_multi_write(reg, heap, fs, db), "write", db, db, 0, 0)

Upgrade == \E db \in DBs :
    /\ ~ub
    /\ Apply(xmldb_multi_upgrade(reg, heap, fs, multi, db), "upgrade", db, db, 0,
             xmldb_cache_get(reg, db))

\* newdb, suffix: NULL or a pointer to a string
Rename == \E db \in DBs, newdb \in {NULL, 1}, suffix \in {NULL, 1} :
    /\ ~ub
    /\ Apply(xmldb_rename(reg, heap, fs, multi, db, newdb, suffix), "rename", db, db,
             IF newdb = NULL /\ suffix = NULL THEN 0 ELSE 1, 0)

\* The datastore API in both storage modes, without failing allocations or
\* system calls
Next == Lock \/ Unlock \/ UnlockAll \/ Clear \/ Delete \/ Create \/ Reset
          \/ Disconnect \/ Exists \/ Copy \/ Load \/ Put \/ Write

Spec == Init /\ [][Next]_vars

\* The cache and file side of the API with copies that fail half way
NextFail == Clear \/ Delete \/ Create \/ Disconnect \/ Copy \/ Load \/ Put \/ Write
              \/ CopyFail

SpecFail == Init /\ [][NextFail]_vars

\* The registry side of the API (lock, cache, flags) in single-file mode
InitFlags == Init /\ multi = FALSE

NextFlags == Lock \/ Unlock \/ UnlockAll \/ Clear \/ Disconnect \/ Load
               \/ ModifiedSet \/ EmptySet \/ VolatileSet
               \/ ModifiedGet \/ EmptyGet \/ VolatileGet \/ Populate

SpecFlags == InitFlags /\ [][NextFlags]_vars

\* Copies between databases that are locked and flagged, with failing steps,
\* in single-file mode
NextCopy == Create \/ Lock \/ ModifiedSet \/ Load \/ Copy \/ CopyFail

SpecCopy == InitFlags /\ [][NextCopy]_vars

\* Every call that writes the registry, in single-file mode
NextRegistry == Create \/ Delete \/ Clear \/ Reset \/ Copy \/ Lock \/ Unlock \/ UnlockAll
                  \/ Disconnect \/ ModifiedSet \/ VolatileSet \/ Load

SpecRegistry == InitFlags /\ [][NextRegistry]_vars

\* The storage layout: a directory that an earlier run in single-file mode
\* may have left files in, then create, delete, upgrade, rename and the
\* read and write paths in either mode
LegacyFiles == {NoFile, File(<<>>)} \cup {File(Ser(k)) : k \in {q \in KidSeqs : Len(q) = MaxKids}}

InitLayout ==
    /\ reg = << >>
    /\ heap = [a \in Addrs |-> FreeCell]
    /\ multi \in BOOLEAN
    /\ fs \in {[d \in DBs |-> [NoDir EXCEPT !.legacy = l[d]]] : l \in [DBs -> LegacyFiles]}
    /\ ub = FALSE
    /\ last = [op |-> "init", db |-> "candidate", to |-> "candidate", id |-> 0, old |-> 0,
               ret |-> 0, calls |-> <<>>]
    /\ InitRest

NextLayout == Upgrade \/ Rename \/ Delete \/ Create \/ Load \/ Put \/ Write \/ WriteSplit

SpecLayout == InitLayout /\ [][NextLayout]_vars

\* ------------------------------------------------- namespace contexts
\* cvec_find(cvv, name): the index of the first cg_var with that name (the
\* NULL name matches a cg_var without name), 0 when there is none
cvec_find(cvv, name) ==
    IF \E i \in 1..Len(cvv) : cvv[i].name = name
    THEN CHOOSE i \in 1..Len(cvv) :
            cvv[i].name = name /\ \A j \in 1..(i - 1) : cvv[j].name # name
    ELSE 0

\* cvec_add_string(cvv, name, val): a new cg_var at the end
cvec_add_string(cvv, name, val) == Append(cvv, [name |-> name, val |-> val])

\* xml_nsctx_add that appends without looking for the prefix
xml_nsctx_add_append(cvv, prefix, ns) == cvec_add_string(cvv, prefix, ns)

\* xml_nsctx_add that moves a replaced entry to the end
xml_nsctx_add_move(cvv, prefix, ns) ==
    cvec_add_string(SelectSeq(cvv, LAMBDA e : e.name # prefix), prefix, ns)

\* xml_nsctx_add
xml_nsctx_add(cvv, prefix, ns) ==
    LET cv == cvec_find(cvv, prefix)
    IN IF cv # 0 THEN [cvv EXCEPT ![cv].val = ns]
       ELSE cvec_add_string(cvv, prefix, ns)

\* xml_nsctx_init
xml_nsctx_init(prefix, ns) ==
    IF ns # NULL THEN xml_nsctx_add(<<>>, prefix, ns) ELSE <<>>

\* xml_nsctx_get
xml_nsctx_get(cvv, prefix) ==
    LET cv == cvec_find(cvv, prefix)
    IN IF cv # 0 THEN cvv[cv].val ELSE NULL

\* xml_nsctx_get_prefix: cvec_each visits the cg_vars in insertion order
xml_nsctx_get_prefix(cvv, ns) ==
    LET hit(i) == cvv[i].val # NULL /\ cvv[i].val = ns
    IN IF \E i \in 1..Len(cvv) : hit(i)
       THEN LET i == CHOOSE i \in 1..Len(cvv) : hit(i) /\ \A j \in 1..(i - 1) : ~hit(j)
            IN [ret |-> 1, prefix |-> cvv[i].name]
       ELSE [ret |-> 0, prefix |-> NULL]

\* The record of an add of (prefix, ns)
NsRecord(hist, prefix, ns) ==
    [order |-> IF \E i \in 1..Len(hist.order) : hist.order[i] = prefix
               THEN hist.order ELSE Append(hist.order, prefix),
     cur |-> [hist.cur EXCEPT ![prefix] = ns],
     repl |-> IF hist.cur[prefix] # NULL THEN hist.repl \cup {prefix} ELSE hist.repl]

NsStep(op, prefix, ns, ret, out) ==
    /\ last' = [op |-> op, db |-> "candidate", to |-> "candidate", id |-> prefix, old |-> ns,
                ret |-> ret, calls |-> out]
    /\ UNCHANGED <<dsvars, xtree, nsdefault, yspec, copt, cdat, sethist, oidreg>>

NsInit == \E prefix \in Prefixes, ns \in Uris \cup {NULL} :
    /\ nsc' = xml_nsctx_init(prefix, ns)
    /\ nshist' = IF ns # NULL THEN NsRecord(NsHist0, prefix, ns) ELSE NsHist0
    /\ NsStep("nsctx_init", prefix, ns, 0, <<>>)

\* last.calls: the URI the prefix had before
NsAdd == \E prefix \in Prefixes, ns \in Uris :
    /\ Len(nsc) <= MaxPrefix + 1
    /\ nsc' = xml_nsctx_add(nsc, prefix, ns)
    /\ nshist' = NsRecord(nshist, prefix, ns)
    /\ NsStep("nsctx_add", prefix, ns, 0, <<xml_nsctx_get(nsc, prefix)>>)

NsGet == \E prefix \in Prefixes :
    /\ NsStep("nsctx_get", prefix, NULL, xml_nsctx_get(nsc, prefix), <<>>)
    /\ UNCHANGED <<nsc, nshist>>

\* last.calls: the prefix handed back
NsGetPrefix == \E ns \in Uris :
    /\ LET g == xml_nsctx_get_prefix(nsc, ns)
       IN NsStep("nsctx_get_prefix", NULL, ns, g.ret, <<g.prefix>>)
    /\ UNCHANGED <<nsc, nshist>>

InitNs == Init /\ multi = FALSE

NextNs == NsInit \/ NsAdd \/ NsGet \/ NsGetPrefix

SpecNs == InitNs /\ [][NextNs]_vars

\* ------------------------------------------------- namespaces of a tree
\* xml_parent: NULL for the top element
xml_parent(n) == n - 1

\* The element child of n, NULL for the last element of the path
XmlChild(n) == IF n + 1 \in XNodes THEN n + 1 ELSE NULL

\* xml_child_nr: the attributes and the element child
xml_child_nr(t, n) == Len(t[n].attrs) + (IF XmlChild(n) # NULL THEN 1 ELSE 0)

\* xml_find_type_value(x, "xmlns", prefix, CX_ATTR), or (x, NULL, "xmlns",
\* CX_ATTR) for the absent prefix: the value of the first such attribute
xml_find_type_value(t, n, prefix) ==
    LET a == t[n].attrs
    IN IF \E i \in 1..Len(a) : a[i].pf = prefix
       THEN a[CHOOSE i \in 1..Len(a) : a[i].pf = prefix /\ \A j \in 1..(i - 1) : a[j].pf # prefix].val
       ELSE NULL

\* nscache_get: the namespace cache of an element is a namespace context
nscache_get(t, n, prefix) == xml_nsctx_get(t[n].cache, prefix)

\* nscache_get_prefix
nscache_get_prefix(t, n, ns) == xml_nsctx_get_prefix(t[n].cache, ns)

\* nscache_set
nscache_set(t, n, prefix, ns) == [t EXCEPT ![n].cache = xml_nsctx_add(@, prefix, ns)]

\* xml_new(name, x, CX_ATTR) with xml_prefix_set and xml_value_set: a new
\* xmlns attribute after the children x has
XmlNewAttr(t, n, prefix, ns) == [t EXCEPT ![n].attrs = Append(@, [pf |-> prefix, val |-> ns])]

\* xml_sort(x): attributes come before the other children and keep their
\* order among themselves
xml_sort(t, n) == t

\* xml2ns that gives the base namespace at the top whatever the prefix
RECURSIVE xml2ns_base(_, _, _, _)
xml2ns_base(t, dflt, x, prefix) ==
    IF nscache_get(t, x, prefix) # NULL
    THEN [tree |-> t, ret |-> 0, ns |-> nscache_get(t, x, prefix)]
    ELSE LET ns0 == xml_find_type_value(t, x, prefix)
             xp == xml_parent(x)
             up == IF ns0 = NULL /\ xp # NULL THEN xml2ns_base(t, dflt, xp, prefix)
                   ELSE [tree |-> t, ret |-> 0, ns |-> NULL]
             ns == IF ns0 # NULL THEN ns0
                   ELSE IF xp # NULL THEN up.ns
                   ELSE IF dflt THEN NETCONF_BASE_NAMESPACE
                   ELSE NULL
             t1 == up.tree
         IN IF ns # NULL /\ xml_child_nr(t1, x) > 1
            THEN [tree |-> nscache_set(t1, x, prefix, ns), ret |-> 0, ns |-> ns]
            ELSE [tree |-> t1, ret |-> 0, ns |-> ns]

\* xml2ns that does not look at the default-namespace mode
RECURSIVE xml2ns_nomode(_, _, _, _)
xml2ns_nomode(t, dflt, x, prefix) ==
    IF nscache_get(t, x, prefix) # NULL
    THEN [tree |-> t, ret |-> 0, ns |-> nscache_get(t, x, prefix)]
    ELSE LET ns0 == xml_find_type_value(t, x, prefix)
             xp == xml_parent(x)
             up == IF ns0 = NULL /\ xp # NULL THEN xml2ns_nomode(t, dflt, xp, prefix)
                   ELSE [tree |-> t, ret |-> 0, ns |-> NULL]
             ns == IF ns0 # NULL THEN ns0
                   ELSE IF xp # NULL THEN up.ns
                   ELSE IF prefix = NULL THEN NETCONF_BASE_NAMESPACE
                   ELSE NULL
             t1 == up.tree
         IN IF ns # NULL /\ xml_child_nr(t1, x) > 1
            THEN [tree |-> nscache_set(t1, x, prefix, ns), ret |-> 0, ns |-> ns]
            ELSE [tree |-> t1, ret |-> 0, ns |-> ns]

\* xml2ns.  Gives the tree (its caches may be filled), the return value and
\* the namespace handed back
RECURSIVE xml2ns(_, _, _, _)
xml2ns(t, dflt, x, prefix) ==
    IF nscache_get(t, x, prefix) # NULL
    THEN [tree |-> t, ret |-> 0, ns |-> nscache_get(t, x, prefix)]
    ELSE LET ns0 == xml_find_type_value(t, x, prefix)
             xp == xml_parent(x)
             up == IF ns0 = NULL /\ xp # NULL THEN xml2ns(t, dflt, xp, prefix)
                   ELSE [tree |-> t, ret |-> 0, ns |-> NULL]
             ns == IF ns0 # NULL THEN ns0
                   ELSE IF xp # NULL THEN up.ns
                   ELSE IF dflt /\ prefix = NULL THEN NETCONF_BASE_NAMESPACE
                   ELSE NULL
             t1 == up.tree
         IN IF ns # NULL /\ xml_child_nr(t1, x) > 1
            THEN [tree |-> nscache_set(t1, x, prefix, ns), ret |-> 0, ns |-> ns]
            ELSE [tree |-> t1, ret |-> 0, ns |-> ns]

\* xml2ns_recurse: the element children of xt, each with its descendants
RECURSIVE xml2ns_recurse(_, _, _)
xml2ns_recurse(t, dflt, top) ==
    LET x == XmlChild(top)
    IN IF x = NULL THEN [tree |-> t, ret |-> 0]
       ELSE LET prefix == t[x].prefix
                r == IF prefix # NULL THEN xml2ns(t, dflt, x, prefix)
                     ELSE [tree |-> t, ret |-> 0, ns |-> NULL]
            IN IF prefix # NULL /\ r.ret < 0 THEN [tree |-> r.tree, ret |-> -1]
               ELSE IF prefix # NULL /\ r.ns = NULL THEN [tree |-> r.tree, ret |-> -1]
               ELSE LET d == xml2ns_recurse(r.tree, dflt, x)
                    IN IF d.ret < 0 THEN [tree |-> d.tree, ret |-> -1]
                       ELSE [tree |-> d.tree, ret |-> 0]

\* The first attribute of n that declares ns, 0 when there is none
XmlFirstDecl(t, n, ns) ==
    LET a == t[n].attrs
    IN IF \E i \in 1..Len(a) : a[i].val = ns
       THEN CHOOSE i \in 1..Len(a) : a[i].val = ns /\ \A j \in 1..(i - 1) : a[j].val # ns
       ELSE 0

\* xml2prefix that does not store what it found further up
RECURSIVE xml2prefix_nostore(_, _, _)
xml2prefix_nostore(t, xn, namespace) ==
    LET c == nscache_get_prefix(t, xn, namespace)
        i == XmlFirstDecl(t, xn, namespace)
        xp == xml_parent(xn)
    IN IF c.ret = 1 THEN [tree |-> t, ret |-> 1, prefix |-> c.prefix]
       ELSE IF i # 0
       THEN [tree |-> nscache_set(t, xn, t[xn].attrs[i].pf, namespace), ret |-> 1,
             prefix |-> t[xn].attrs[i].pf]
       ELSE IF xp # NULL
       THEN xml2prefix_nostore(t, xp, namespace)
       ELSE [tree |-> t, ret |-> 0, prefix |-> NULL]

\* xml2prefix.  Gives the tree, the return value and the prefix handed back
RECURSIVE xml2prefix(_, _, _)
xml2prefix(t, xn, namespace) ==
    LET c == nscache_get_prefix(t, xn, namespace)
        i == XmlFirstDecl(t, xn, namespace)
        xp == xml_parent(xn)
    IN IF c.ret = 1 THEN [tree |-> t, ret |-> 1, prefix |-> c.prefix]
       ELSE IF i # 0
       THEN [tree |-> nscache_set(t, xn, t[xn].attrs[i].pf, namespace), ret |-> 1,
             prefix |-> t[xn].attrs[i].pf]
       ELSE IF xp # NULL
       THEN LET up == xml2prefix(t, xp, namespace)
            IN IF up.ret = 1
               THEN [tree |-> nscache_set(up.tree, xn, up.prefix, namespace), ret |-> 1,
                     prefix |-> up.prefix]
               ELSE [tree |-> up.tree, ret |-> 0, prefix |-> NULL]
       ELSE [tree |-> t, ret |-> 0, prefix |-> NULL]

\* xml_nsctx_node1 where a declaration further up replaces the one found
RECURSIVE xml_nsctx_node1_last(_, _, _, _)
xml_nsctx_node1_last(t, dflt, xn, ctx) ==
    LET a == t[xn].attrs
        AddAttrs[i \in 0..Len(a)] ==
            IF i = 0 THEN ctx ELSE xml_nsctx_add(AddAttrs[i - 1], a[i].pf, a[i].val)
        c1 == AddAttrs[Len(a)]
    IN IF xml_parent(xn) = NULL
       THEN IF dflt /\ xml_nsctx_get(c1, NULL) = NULL
            THEN xml_nsctx_add(c1, NULL, NETCONF_BASE_NAMESPACE)
            ELSE c1
       ELSE xml_nsctx_node1_last(t, dflt, xml_parent(xn), c1)

\* xml_nsctx_node1
RECURSIVE xml_nsctx_node1(_, _, _, _)
xml_nsctx_node1(t, dflt, xn, ctx) ==
    LET a == t[xn].attrs
        AddAttrs[i \in 0..Len(a)] ==
            IF i = 0 THEN ctx
            ELSE IF xml_nsctx_get(AddAttrs[i - 1], a[i].pf) = NULL
                 THEN xml_nsctx_add(AddAttrs[i - 1], a[i].pf, a[i].val)
                 ELSE AddAttrs[i - 1]
        c1 == AddAttrs[Len(a)]
    IN IF xml_parent(xn) = NULL
       THEN IF dflt /\ xml_nsctx_get(c1, NULL) = NULL
            THEN xml_nsctx_add(c1, NULL, NETCONF_BASE_NAMESPACE)
            ELSE c1
       ELSE xml_nsctx_node1(t, dflt, xml_parent(xn), c1)

\* xml_nsctx_node
xml_nsctx_node(t, dflt, xn) == xml_nsctx_node1(t, dflt, xn, <<>>)

\* xmlns_set that leaves the cache alone
xmlns_set_nocache(t, x, prefix, ns) == XmlNewAttr(t, x, prefix, ns)

\* xmlns_set
xmlns_set(t, x, prefix, ns) ==
    LET t1 == XmlNewAttr(t, x, prefix, ns)
    IN IF ns # NULL THEN nscache_set(t1, x, prefix, ns) ELSE t1

\* xml_add_namespace
xml_add_namespace(t, x, xp, prefix, namespace) ==
    xml_sort(XmlNewAttr(nscache_set(t, x, prefix, namespace), xp, prefix, namespace), xp)

\* The declarations an element can carry, and the lists of them
XDecls == [pf : XPrefixes, val : XUris]

RECURSIVE XDeclSeqs(_)
XDeclSeqs(n) == IF n = 0 THEN {<<>>}
                ELSE XDeclSeqs(n - 1) \cup
                     {Append(q, d) : q \in {r \in XDeclSeqs(n - 1) : Len(r) = n - 1}, d \in XDecls}

RECURSIVE XDeclCount(_, _)
XDeclCount(t, nodes) ==
    IF nodes = {} THEN 0
    ELSE LET n == CHOOSE m \in nodes : TRUE
         IN Len(t[n].attrs) + XDeclCount(t, nodes \ {n})

\* The trees a parser can hand over: on each element at most one
\* declaration of a prefix (an element has no two attributes of one name),
\* the caches empty
XTrees ==
    {t \in [XNodes -> [prefix : XPrefixes, attrs : XDeclSeqs(MaxDecl), cache : {<<>>}]] :
        /\ XDeclCount(t, XNodes) <= MaxDecl
        /\ \A n \in XNodes : \A i, j \in 1..Len(t[n].attrs) :
              t[n].attrs[i].pf = t[n].attrs[j].pf => i = j
        /\ \A n \in XNodes : xml_parent(n) = NULL => t[n].prefix = NULL}

\* A call on the tree: last.old is the element, last.id the prefix or URI
\* given, last.calls the namespace or prefix handed back
XmlStep(t, op, x, arg, ret, out) ==
    /\ xtree' = t
    /\ last' = [op |-> op, db |-> "candidate", to |-> "candidate", id |-> arg, old |-> x,
                ret |-> ret, calls |-> out]
    /\ UNCHANGED <<dsvars, nshist, nsdefault, yspec, copt, cdat, sethist, oidreg>>

Xml2ns == \E x \in XNodes, prefix \in XPrefixes :
    LET r == xml2ns(xtree, nsdefault, x, prefix)
    IN XmlStep(r.tree, "xml2ns", x, prefix, r.ret, <<r.ns>>) /\ UNCHANGED nsc

Xml2prefix == \E x \in XNodes, ns \in XUris :
    LET r == xml2prefix(xtree, x, ns)
    IN XmlStep(r.tree, "xml2prefix", x, ns, r.ret, <<r.prefix>>) /\ UNCHANGED nsc

Xml2nsRecurse == \E x \in XNodes :
    LET r == xml2ns_recurse(xtree, nsdefault, x)
    IN XmlStep(r.tree, "xml2ns_recurse", x, NULL, r.ret, <<>>) /\ UNCHANGED nsc

NsctxNode == \E x \in XNodes :
    /\ nsc' = xml_nsctx_node(xtree, nsdefault, x)
    /\ XmlStep(xtree, "xml_nsctx_node", x, NULL, 0, <<>>)

XmlnsSet == \E x \in XNodes, prefix \in XPrefixes, ns \in XUris :
    /\ XDeclCount(xtree, XNodes) < MaxDecl
    /\ XmlStep(xmlns_set(xtree, x, prefix, ns), "xmlns_set", x, prefix, 0, <<ns>>)
    /\ UNCHANGED nsc

\* last.to: the element the attribute goes to
XmlAddNamespace == \E x \in XNodes, xp \in XNodes, prefix \in XPrefixes, ns \in XUris :
    /\ xp <= x
    /\ XDeclCount(xtree, XNodes) < MaxDecl
    /\ XmlStep(xml_add_namespace(xtree, x, xp, prefix, ns),
               IF xp = x THEN "xml_add_namespace" ELSE "xml_add_namespace_parent",
               x, prefix, 0, <<ns>>)
    /\ UNCHANGED nsc

\* Resolution on a tree that is not changed
InitDs ==
    /\ reg = << >>
    /\ heap = [a \in Addrs |-> FreeCell]
    /\ multi = FALSE
    /\ fs = [d \in DBs |-> NoDir]
    /\ ub = FALSE
    /\ last = [op |-> "init", db |-> "candidate", to |-> "candidate", id |-> 0, old |-> 0,
               ret |-> 0, calls |-> <<>>]

InitResolve ==
    /\ InitDs
    /\ nsc = <<>>
    /\ nshist = NsHist0
    /\ xtree \in XTrees
    /\ nsdefault \in BOOLEAN
    /\ yspec = <<>>
    /\ copt = << >>
    /\ cdat = << >>
    /\ sethist = SetHist0
    /\ oidreg = <<>>

NextResolve == Xml2ns \/ Xml2prefix \/ Xml2nsRecurse \/ NsctxNode

SpecResolve == InitResolve /\ [][NextResolve]_vars

\* Declarations added to a tree that starts without any
InitDeclare ==
    /\ InitDs
    /\ nsc = <<>>
    /\ nshist = NsHist0
    /\ xtree = XTree0
    /\ nsdefault \in BOOLEAN
    /\ yspec = <<>>
    /\ copt = << >>
    /\ cdat = << >>
    /\ sethist = SetHist0
    /\ oidreg = <<>>

NextDeclare == XmlnsSet \/ XmlAddNamespace \/ Xml2ns \/ Xml2prefix

SpecDeclare == InitDeclare /\ [][NextDeclare]_vars

\* xmlns_set_all without the test for a declaration that is already there
RECURSIVE xmlns_set_all_force(_, _, _)
xmlns_set_all_force(t, x, cvv) ==
    IF cvv = <<>> THEN t
    ELSE xmlns_set_all_force(xmlns_set(t, x, Head(cvv).name, Head(cvv).val), x, Tail(cvv))

\* xmlns_set_all: cvec_each over nsc; an entry whose prefix x declares
\* already is skipped, as is one without namespace
RECURSIVE xmlns_set_all(_, _, _)
xmlns_set_all(t, x, cvv) ==
    IF cvv = <<>> THEN t
    ELSE LET pf == Head(cvv).name
             ns == xml_find_type_value(t, x, pf)
             t1 == IF ns # NULL THEN t
                   ELSE IF Head(cvv).val # NULL THEN xmlns_set(t, x, pf, Head(cvv).val)
                   ELSE t
         IN xmlns_set_all(t1, x, Tail(cvv))

\* The namespace contexts given to xmlns_set_all: one entry per prefix
XCtxs ==
    {[i \in 1..Len(q) |-> [name |-> q[i].pf, val |-> q[i].val]] :
        q \in {r \in XDeclSeqs(MaxDecl) :
                  \A i, j \in 1..Len(r) : r[i].pf = r[j].pf => i = j}}

\* nsc becomes the context given
XmlnsSetAll == \E x \in XNodes, c \in XCtxs :
    /\ nsc' = c
    /\ XmlStep(xmlns_set_all(xtree, x, c), "xmlns_set_all", x, NULL, 0, <<>>)

\* Declarations added from a context to a parsed tree
InitSetAll ==
    /\ InitDs
    /\ nsc = <<>>
    /\ nshist = NsHist0
    /\ xtree \in XTrees
    /\ nsdefault = FALSE
    /\ yspec = <<>>
    /\ copt = << >>
    /\ cdat = << >>
    /\ sethist = SetHist0
    /\ oidreg = <<>>

NextSetAll == XmlnsSetAll

SpecSetAll == InitSetAll /\ [][NextSetAll]_vars

\* ------------------------------------------- namespaces of a yang spec
\* The names a module can have: a module is named by its place in the yang
\* spec, and an import can name a module that is not loaded
YModNames == {1, 2, 3}

\* What yn can be: the yang spec itself, a statement outside any module, or a
\* statement of the module with that name
Y_SPEC == 0
YOrphan == 4

\* yang_find(yspec, Y_MODULE, name) # NULL, and ys_module(yn) # NULL
YLoaded(ys, name) == name \in 1..Len(ys)

\* yang_find_myprefix
yang_find_myprefix(ys, yn) == IF YLoaded(ys, yn) THEN ys[yn].prefix ELSE NULL

\* yang_find_mynamespace, and the namespace statement of a loaded module
yang_find_mynamespace(ys, yn) == IF YLoaded(ys, yn) THEN ys[yn].ns ELSE NULL

\* xml_nsctx_yangspec where the first module that declares a prefix keeps it
xml_nsctx_yangspec_first(ys, ncp) ==
    LET Each[i \in 0..Len(ys)] ==
            IF i = 0 THEN ncp
            ELSE IF ys[i].prefix = NULL \/ ys[i].ns = NULL THEN Each[i - 1]
            ELSE IF xml_nsctx_get(Each[i - 1], ys[i].prefix) # NULL THEN Each[i - 1]
            ELSE xml_nsctx_add(Each[i - 1], ys[i].prefix, ys[i].ns)
    IN xml_nsctx_add(xml_nsctx_add(Each[Len(ys)], NULL, NETCONF_BASE_NAMESPACE),
                     NETCONF_BASE_PREFIX, NETCONF_BASE_NAMESPACE)

\* xml_nsctx_yangspec: ncp is the context handed in, empty when *ncp is NULL
xml_nsctx_yangspec(ys, ncp) ==
    LET Each[i \in 0..Len(ys)] ==
            IF i = 0 THEN ncp
            ELSE IF ys[i].prefix = NULL \/ ys[i].ns = NULL THEN Each[i - 1]
            ELSE xml_nsctx_add(Each[i - 1], ys[i].prefix, ys[i].ns)
    IN xml_nsctx_add(xml_nsctx_add(Each[Len(ys)], NULL, NETCONF_BASE_NAMESPACE),
                     NETCONF_BASE_PREFIX, NETCONF_BASE_NAMESPACE)

\* xml_nsctx_yang that binds an import's prefix to the namespace of the
\* importing module
xml_nsctx_yang_myns(ys, yn) ==
    LET myprefix == yang_find_myprefix(ys, yn)
        mynamespace == yang_find_mynamespace(ys, yn)
        nc0 == xml_nsctx_add(xml_nsctx_add(<<>>, NULL, mynamespace), myprefix, mynamespace)
    IN IF yn = Y_SPEC \/ myprefix = NULL \/ mynamespace = NULL \/ ~YLoaded(ys, yn)
       THEN [ret |-> -1, nc |-> <<>>]
       ELSE LET imp == ys[yn].imports
                Each[i \in 0..Len(imp)] ==
                    IF i = 0 THEN nc0
                    ELSE IF imp[i].prefix = NULL THEN Each[i - 1]
                    ELSE IF ~YLoaded(ys, imp[i].name) THEN Each[i - 1]
                    ELSE IF yang_find_mynamespace(ys, imp[i].name) = NULL THEN Each[i - 1]
                    ELSE xml_nsctx_add(Each[i - 1], imp[i].prefix, mynamespace)
            IN [ret |-> 0, nc |-> Each[Len(imp)]]

\* xml_nsctx_yang: the return value and the context stored in *ncp
xml_nsctx_yang(ys, yn) ==
    LET myprefix == yang_find_myprefix(ys, yn)
        mynamespace == yang_find_mynamespace(ys, yn)
        nc0 == xml_nsctx_add(xml_nsctx_add(<<>>, NULL, mynamespace), myprefix, mynamespace)
    IN IF yn = Y_SPEC THEN [ret |-> -1, nc |-> <<>>]
       ELSE IF myprefix = NULL THEN [ret |-> -1, nc |-> <<>>]
       ELSE IF mynamespace = NULL THEN [ret |-> -1, nc |-> <<>>]
       ELSE IF ~YLoaded(ys, yn) THEN [ret |-> -1, nc |-> <<>>]
       ELSE LET imp == ys[yn].imports
                Each[i \in 0..Len(imp)] ==
                    IF i = 0 THEN nc0
                    ELSE IF imp[i].prefix = NULL THEN Each[i - 1]
                    ELSE IF ~YLoaded(ys, imp[i].name) THEN Each[i - 1]
                    ELSE IF yang_find_mynamespace(ys, imp[i].name) = NULL THEN Each[i - 1]
                    ELSE xml_nsctx_add(Each[i - 1], imp[i].prefix,
                                       yang_find_mynamespace(ys, imp[i].name))
            IN [ret |-> 0, nc |-> Each[Len(imp)]]

\* The import statements a module can hold: those of YANG, where the
\* prefixes of a module, its own included, are distinct
YImportSeqs ==
    LET I == [name : YModNames, prefix : Prefixes]
    IN {<<>>} \cup {<<i>> : i \in I} \cup {<<i, k>> : i \in I, k \in I}

YDistinct(own, imp) ==
    /\ \A i \in 1..Len(imp) : imp[i].prefix # own
    /\ \A i, k \in 1..Len(imp) : imp[i].prefix = imp[k].prefix /\ imp[i].prefix # NULL => i = k

\* The yang specs: up to two modules, the first with import statements
YSpecs ==
    LET M == [prefix : Prefixes, ns : {NULL} \cup Uris, imports : YImportSeqs]
        ok(m) == YDistinct(m.prefix, m.imports)
    IN {<<>>} \cup {<<m>> : m \in {n \in M : ok(n)}}
        \cup {<<m, k>> : m \in {n \in M : ok(n)}, k \in {n \in M : n.imports = <<>>}}

\* A call that builds a context from the yang spec: last.old is yn, last.id
\* tells whether a context was handed in
YangStep(op, nc, yn, given, ret) ==
    /\ nsc' = nc
    /\ last' = [op |-> op, db |-> "candidate", to |-> "candidate", id |-> given, old |-> yn,
                ret |-> ret, calls |-> <<>>]
    /\ UNCHANGED <<dsvars, nshist, xtree, nsdefault, yspec, copt, cdat, sethist, oidreg>>

NsctxYangspec == \E given \in {0, 1} :
    YangStep("xml_nsctx_yangspec",
             xml_nsctx_yangspec(yspec, IF given = 1 THEN nsc ELSE <<>>), Y_SPEC, given, 0)

NsctxYang == \E yn \in {Y_SPEC, YOrphan} \cup (1..Len(yspec)) :
    LET r == xml_nsctx_yang(yspec, yn)
    IN YangStep("xml_nsctx_yang", IF r.ret = 0 THEN r.nc ELSE nsc, yn, 0, r.ret)

InitYang ==
    /\ InitDs
    /\ nsc = <<>>
    /\ nshist = NsHist0
    /\ xtree = XTree0
    /\ nsdefault = FALSE
    /\ yspec \in YSpecs
    /\ copt = << >>
    /\ cdat = << >>
    /\ sethist = SetHist0
    /\ oidreg = <<>>

NextYang == NsctxYangspec \/ NsctxYang

SpecYang == InitYang /\ [][NextYang]_vars

\* ------------------------------------------------ options and data
\* hash_lookup / clicon_hash_lookup: is there an entry for key
hash_lookup(hash, key) == key \in DOMAIN hash

\* hash_value / clicon_hash_value
hash_value(hash, key) == hash[key]

\* hash_add / clicon_hash_add: a copy of the value, in place of an older one
hash_add(hash, key, val) ==
    [k \in (DOMAIN hash) \cup {key} |-> IF k = key THEN val ELSE hash[k]]

\* hash_del / clicon_hash_del: the table and the return value
hash_del(hash, key) ==
    IF key \in DOMAIN hash
    THEN [hash |-> [k \in (DOMAIN hash) \ {key} |-> hash[k]], ret |-> 0]
    ELSE [hash |-> hash, ret |-> -1]

\* clicon_option_exists
clicon_option_exists(h, name) == IF hash_lookup(h, name) THEN 1 ELSE 0

\* clicon_option_str
clicon_option_str(h, name) == IF ~hash_lookup(h, name) THEN NULL ELSE hash_value(h, name)

\* clicon_option_str_set that keeps the value of an option that exists
clicon_option_str_set_once(h, name, val) ==
    IF hash_lookup(h, name) THEN h ELSE hash_add(h, name, val)

\* clicon_option_str_set
clicon_option_str_set(h, name, val) == hash_add(h, name, val)

\* clicon_option_del
clicon_option_del(h, name) == hash_del(h, name)

\* clicon_data_get: the return value and *val
clicon_data_get(h, name) ==
    IF ~hash_lookup(h, name) THEN [ret |-> -1, val |-> NULL]
    ELSE [ret |-> 0, val |-> hash_value(h, name)]

\* clicon_data_set
clicon_data_set(h, name, val) == hash_add(h, name, val)

\* clicon_data_del
clicon_data_del(h, name) == hash_del(h, name)

\* A call on a store: last.db is the store, last.id the key, last.old the
\* value given, last.calls the value handed back
HashStep(op, store, name, val, ret, out) ==
    /\ last' = [op |-> op, db |-> store, to |-> store, id |-> name, old |-> val,
                ret |-> ret, calls |-> out]
    /\ UNCHANGED <<dsvars, nsc, nshist, xtree, nsdefault, yspec, oidreg>>

OptionStrSet == \E name \in HashKeys, val \in HashVals :
    /\ copt' = clicon_option_str_set(copt, name, val)
    /\ sethist' = [sethist EXCEPT !.opt[name] = val,
                                  !.over = IF sethist.opt[name] \notin {NULL, val}
                                           THEN @ \cup {<<"option", name>>} ELSE @]
    /\ HashStep("set", "option", name, val, 0, <<>>)
    /\ UNCHANGED cdat

OptionDel == \E name \in HashKeys :
    /\ copt' = clicon_option_del(copt, name).hash
    /\ sethist' = [sethist EXCEPT !.opt[name] = NULL]
    /\ HashStep("del", "option", name, NULL, clicon_option_del(copt, name).ret, <<>>)
    /\ UNCHANGED cdat

OptionExists == \E name \in HashKeys :
    /\ HashStep("exists", "option", name, NULL, clicon_option_exists(copt, name), <<>>)
    /\ UNCHANGED <<copt, cdat, sethist>>

OptionStr == \E name \in HashKeys :
    /\ HashStep("str", "option", name, NULL, 0, <<clicon_option_str(copt, name)>>)
    /\ UNCHANGED <<copt, cdat, sethist>>

DataSet == \E name \in HashKeys, val \in HashVals :
    /\ cdat' = clicon_data_set(cdat, name, val)
    /\ sethist' = [sethist EXCEPT !.dat[name] = val,
                                  !.over = IF sethist.dat[name] \notin {NULL, val}
                                           THEN @ \cup {<<"data", name>>} ELSE @]
    /\ HashStep("set", "data", name, val, 0, <<>>)
    /\ UNCHANGED copt

DataDel == \E name \in HashKeys :
    /\ cdat' = clicon_data_del(cdat, name).hash
    /\ sethist' = [sethist EXCEPT !.dat[name] = NULL]
    /\ HashStep("del", "data", name, NULL, clicon_data_del(cdat, name).ret, <<>>)
    /\ UNCHANGED copt

DataGet == \E name \in HashKeys :
    /\ HashStep("get", "data", name, NULL, clicon_data_get(cdat, name).ret,
                <<clicon_data_get(cdat, name).val>>)
    /\ UNCHANGED <<copt, cdat, sethist>>

NextHash == OptionStrSet \/ OptionDel \/ OptionExists \/ OptionStr
            \/ DataSet \/ DataDel \/ DataGet

\* Both stores empty
InitHash == InitDs /\ InitRest

SpecHash == InitHash /\ [][NextHash]_vars

\* ---- Options given as int and as bool, stored as strings ----

\* A string is the sequence of its character codes; "true"
StrTrue == <<116, 114, 117, 101>>

\* The option names of the typed accessors
OptNames == {"X", "CLICON_QUIET"}

\* The width of int and unsigned int in bits, scaled down from 32 so that
\* 2^IntBits and every decimal string of the model stay small
IntBits == 16
INT_MAX == 2^(IntBits - 1) - 1
INT_MIN == -(2^(IntBits - 1))

\* The int values given to the setters
IntVals == {INT_MIN, -1, 0, 1, 10, INT_MAX}

\* The decimal digits of a natural number, as character codes
RECURSIVE Decimal(_)
Decimal(n) == IF n < 10 THEN <<48 + n>> ELSE Append(Decimal(n \div 10), 48 + (n % 10))

\* snprintf(s, sizeof(s)-1, "%u", val): the int is read as unsigned int
snprintf_u(val) == Decimal(val % (2^IntBits))

\* The value of the longest prefix of s made of digits
RECURSIVE DigitsValue(_, _)
DigitsValue(s, acc) ==
    IF s = <<>> \/ Head(s) < 48 \/ Head(s) > 57 THEN acc
    ELSE DigitsValue(Tail(s), 10 * acc + (Head(s) - 48))

\* atoi(s) is (int)strtol(s, NULL, 10), and undefined when the value does
\* not fit an int: where long is wider than int (lp64) the cast keeps the low
\* bits, where long is as wide as int strtol stops at LONG_MAX or LONG_MIN
atoi(s, lp64) ==
    LET neg == s # <<>> /\ Head(s) = 45
        mag == DigitsValue(IF neg THEN Tail(s) ELSE s, 0)
        v == IF neg THEN -mag ELSE mag
    IN IF v >= INT_MIN /\ v <= INT_MAX THEN v
       ELSE IF lp64 THEN ((v - INT_MIN) % (2^IntBits)) + INT_MIN
       ELSE IF v < 0 THEN INT_MIN ELSE INT_MAX

\* clicon_option_int
clicon_option_int(h, name, lp64) ==
    IF clicon_option_exists(h, name) = 0 THEN -1
    ELSE atoi(clicon_option_str(h, name), lp64)

\* clicon_option_int_set
clicon_option_int_set(h, name, val) == clicon_option_str_set(h, name, snprintf_u(val))

\* clicon_option_bool
clicon_option_bool(h, name) ==
    IF clicon_option_exists(h, name) = 0 THEN 0
    ELSE IF clicon_option_str(h, name) = StrTrue THEN 1
    ELSE 0

\* clicon_option_bool_set
clicon_option_bool_set(h, name, val) == clicon_option_str_set(h, name, snprintf_u(val))

\* clicon_quiet_mode
clicon_quiet_mode(h, lp64) ==
    IF clicon_option_exists(h, "CLICON_QUIET") = 0 THEN 0
    ELSE atoi(clicon_option_str(h, "CLICON_QUIET"), lp64)

\* clicon_quiet_mode_set
clicon_quiet_mode_set(h, val) == clicon_option_int_set(h, "CLICON_QUIET", val)

\* A call of a typed accessor: last.id is the option, last.old the value
\* given, last.calls the build (whether long is wider than int) of a read
TypedStep(op, name, val, ret, out) ==
    /\ last' = [op |-> op, db |-> "option", to |-> "option", id |-> name, old |-> val,
                ret |-> ret, calls |-> out]
    /\ UNCHANGED <<dsvars, nsc, nshist, xtree, nsdefault, yspec, cdat, sethist, oidreg>>

OptionIntSet == \E name \in OptNames, val \in IntVals :
    /\ copt' = clicon_option_int_set(copt, name, val)
    /\ TypedStep("int_set", name, val, 0, <<>>)

OptionInt == \E name \in OptNames, lp64 \in BOOLEAN :
    /\ TypedStep("int", name, 0, clicon_option_int(copt, name, lp64), <<lp64>>)
    /\ UNCHANGED copt

OptionBoolSet == \E name \in OptNames, val \in {0, 1} :
    /\ copt' = clicon_option_bool_set(copt, name, val)
    /\ TypedStep("bool_set", name, val, 0, <<>>)

OptionBool == \E name \in OptNames :
    /\ TypedStep("bool", name, 0, clicon_option_bool(copt, name), <<>>)
    /\ UNCHANGED copt

QuietModeSet == \E val \in IntVals :
    /\ copt' = clicon_quiet_mode_set(copt, val)
    /\ TypedStep("quiet_mode_set", "CLICON_QUIET", val, 0, <<>>)

QuietMode == \E lp64 \in BOOLEAN :
    /\ TypedStep("quiet_mode", "CLICON_QUIET", 0, clicon_quiet_mode(copt, lp64), <<lp64>>)
    /\ UNCHANGED copt

\* An option set to true by the configuration file
OptionLoadTrue == \E name \in OptNames :
    /\ copt' = clicon_option_str_set(copt, name, StrTrue)
    /\ TypedStep("load_true", name, 1, 0, <<>>)

NextTyped == OptionIntSet \/ OptionInt \/ OptionBoolSet \/ OptionBool
             \/ QuietModeSet \/ QuietMode \/ OptionLoadTrue

InitTyped == InitDs /\ InitRest

SpecTyped == InitTyped /\ [][NextTyped]_vars

\* ---- The module state cache ----

\* The key of the brief or of the full module state tree
ModstKey(brief) == IF brief = 1 THEN "modst_brief" ELSE "modst_full"

\* xml_dup: a copy of the caller's tree in a new cell
xml_dup(h, a, g) == [h EXCEPT ![a] = Cell("modules-state", g)]

\* clicon_modst_cache_get
clicon_modst_cache_get(c, brief) ==
    IF hash_lookup(c, ModstKey(brief)) THEN hash_value(c, ModstKey(brief)) ELSE NULL

\* clicon_modst_cache_set: xms is whether a tree is given, g its content, a
\* the address xml_dup gets (NULL when it fails); the data store, the heap,
\* the return value and whether freed memory was freed again
clicon_modst_cache_set(c, h, brief, xms, g, a) ==
    LET x == clicon_modst_cache_get(c, brief)
        fr == IF x # NULL THEN xml_free(h, x) ELSE [heap |-> h, ub |-> FALSE]
    IN IF ~xms THEN [cdat |-> c, heap |-> fr.heap, ret |-> 0, ub |-> fr.ub]
       ELSE IF a = NULL THEN [cdat |-> c, heap |-> fr.heap, ret |-> -1, ub |-> fr.ub]
       ELSE [cdat |-> hash_add(c, ModstKey(brief), a), heap |-> xml_dup(fr.heap, a, g),
             ret |-> 0, ub |-> fr.ub]

\* last.id: brief; last.old: 1 when a tree was given; last.ret: the return
\* value, of the get the tree
ModstStep(op, brief, xms, ret) ==
    /\ last' = [op |-> op, db |-> "data", to |-> "data", id |-> brief, old |-> xms,
                ret |-> ret, calls |-> <<>>]
    /\ UNCHANGED <<reg, fs, multi, nsc, nshist, xtree, nsdefault, yspec, copt, sethist, oidreg>>

ModstCacheSet == \E brief \in {0, 1}, xms \in BOOLEAN, g \in KidSeqs, a \in Addrs \cup {NULL} :
    LET x == clicon_modst_cache_get(cdat, brief)
        fr == IF x # NULL THEN xml_free(heap, x) ELSE [heap |-> heap, ub |-> FALSE]
        r == clicon_modst_cache_set(cdat, heap, brief, xms, g, a)
    IN /\ ~ub
       /\ a \in {NULL, Alloc(fr.heap)}
       /\ ~xms => (a = NULL /\ g = <<>>)
       /\ cdat' = r.cdat /\ heap' = r.heap /\ ub' = r.ub
       /\ ModstStep("modst_set", brief, IF xms THEN 1 ELSE 0, r.ret)

ModstCacheGet == \E brief \in {0, 1} :
    /\ ~ub
    /\ ModstStep("modst_get", brief, 0, clicon_modst_cache_get(cdat, brief))
    /\ UNCHANGED <<cdat, heap, ub>>

NextModst == ModstCacheSet \/ ModstCacheGet

InitModst == InitDs /\ InitRest

SpecModst == InitModst /\ [][NextModst]_vars

\* ---- Registration of MIB leaves with the SNMP agent ----

\* The YANG leaves of a MIB: whether the leaf has smiv2:oid, the OID given
\* there, whether it has smiv2:max-access
SnmpOids == {<<1>>, <<2>>}
SnmpLeaves == {ys \in [hasoid : BOOLEAN, oid : SnmpOids, access : BOOLEAN] :
                  ~ys.hasoid => (ys.oid = <<1>> /\ ys.access)}

\* The key part of an OID: zero_oid for a scalar, the index of a table row
zero_oid == <<0>>
SnmpKeys == {zero_oid, <<1>>}

\* The helper that fails in a call, if any
SnmpFails == {"none", "type_yang2asn1", "register"}

\* yangext_oid_get: 1 and the OID with smiv2:oid, 0 without
yangext_oid_get(ys) == [ret |-> IF ys.hasoid THEN 1 ELSE 0, oid |-> ys.oid]

\* oid_append
oid_append(oid1, oidk) == oid1 \o oidk

\* clixon_snmp_api_oid_find: 1 when the agent has a registration of this OID
clixon_snmp_api_oid_find(r, oid1) ==
    IF \E i \in 1..Len(r) : r[i] = oid1 THEN 1 ELSE 0

\* netsnmp_register_instance: the agent refuses an OID it has already
netsnmp_register_instance(r, oid1) ==
    IF \E i \in 1..Len(r) : r[i] = oid1 THEN [reg |-> r, ok |-> FALSE]
    ELSE [reg |-> Append(r, oid1), ok |-> TRUE]

\* mibyang_leaf_register without the test for an OID that is registered
mibyang_leaf_register_nofind(r, ys, oidk, fail) ==
    LET oid1 == oid_append(yangext_oid_get(ys).oid, oidk)
        nr == netsnmp_register_instance(r, oid1)
    IN IF yangext_oid_get(ys).ret = 0 THEN [reg |-> r, ret |-> 0]
       ELSE IF fail = "type_yang2asn1" THEN [reg |-> r, ret |-> -1]
       ELSE IF ~ys.access THEN [reg |-> r, ret |-> 0]
       ELSE IF fail = "register" \/ ~nr.ok THEN [reg |-> r, ret |-> -1]
       ELSE [reg |-> nr.reg, ret |-> 0]

\* mibyang_leaf_register: the registrations of the agent and the return value
mibyang_leaf_register(r, ys, oidk, fail) ==
    LET oid1 == oid_append(yangext_oid_get(ys).oid, oidk)
        nr == netsnmp_register_instance(r, oid1)
    IN IF yangext_oid_get(ys).ret = 0 THEN [reg |-> r, ret |-> 0]
       ELSE IF clixon_snmp_api_oid_find(r, oid1) = 1 THEN [reg |-> r, ret |-> 0]
       ELSE IF fail = "type_yang2asn1" THEN [reg |-> r, ret |-> -1]
       ELSE IF ~ys.access THEN [reg |-> r, ret |-> 0]
       ELSE IF fail = "register" \/ ~nr.ok THEN [reg |-> r, ret |-> -1]
       ELSE [reg |-> nr.reg, ret |-> 0]

\* The inner loop of mibyang_table_poll: the columns of one row
RECURSIVE PollRow(_, _, _)
PollRow(r, cols, oidk) ==
    IF cols = <<>> THEN [reg |-> r, ret |-> 0]
    ELSE LET c == mibyang_leaf_register(r, Head(cols), oidk, "none")
         IN IF c.ret < 0 THEN c ELSE PollRow(c.reg, Tail(cols), oidk)

\* mibyang_table_poll: every column of every row the datastore has
RECURSIVE mibyang_table_poll(_, _, _)
mibyang_table_poll(r, rows, cols) ==
    IF rows = <<>> THEN [reg |-> r, ret |-> 0]
    ELSE LET c == PollRow(r, cols, Head(rows))
         IN IF c.ret < 0 THEN c ELSE mibyang_table_poll(c.reg, Tail(rows), cols)

\* The rows and the columns of a table
SnmpRows == {<<>>} \cup {<<k>> : k \in SnmpKeys} \cup {<<k1, k2>> : k1, k2 \in SnmpKeys}
SnmpCols == {<<>>} \cup {<<c>> : c \in SnmpLeaves} \cup {<<c1, c2>> : c1, c2 \in SnmpLeaves}

\* last.calls: the leaf, the key and the failing helper of a leaf
\* registration
SnmpStep(op, r, calls) ==
    /\ oidreg' = r.reg
    /\ last' = [op |-> op, db |-> "candidate", to |-> "candidate", id |-> 0, old |-> 0,
                ret |-> r.ret, calls |-> calls]
    /\ UNCHANGED <<dsvars, nsc, nshist, xtree, nsdefault, yspec, copt, cdat, sethist>>

\* mibyang_leaf_register, from mibyang_traverse with zero_oid or for one cell
\* of a table
MibyangLeafRegister == \E ys \in SnmpLeaves, oidk \in SnmpKeys, fail \in SnmpFails :
    SnmpStep("leaf_register", mibyang_leaf_register(oidreg, ys, oidk, fail), <<ys, oidk, fail>>)

MibyangTablePoll == \E rows \in SnmpRows, cols \in SnmpCols :
    SnmpStep("table_poll", mibyang_table_poll(oidreg, rows, cols), <<rows, cols>>)

NextSnmp == MibyangLeafRegister \/ MibyangTablePoll

InitSnmp == InitDs /\ InitRest

SpecSnmp == InitSnmp /\ [][NextSnmp]_vars

\* ------------------------------------------------------------------ claims
\* The document a reader of db obtains: the cache if present, else the file
Reader(db) ==
    IF xmldb_cache_get(reg, db) # NULL THEN Ser(heap[xmldb_cache_get(reg, db)].kids)
    ELSE FileOf(fs, multi, db).data

\* C1: xmldb_lock(db, id) returns 0 and makes id the holder of db whatever
\* the state of db was (unregistered, unlocked, held by another session);
\* xmldb_unlock(db) returns 0 and leaves db without holder.
C1_LockOverwrites ==
    /\ last.op = "lock" => last.ret = 0 /\ xmldb_islocked(reg, last.db) = last.id
    /\ last.op = "unlock" => last.ret = 0 /\ xmldb_islocked(reg, last.db) = 0

\* A lock that took the database over from another session
C1_Witness == last.op = "lock" /\ last.old # 0 /\ last.old # last.id
                /\ xmldb_islocked(reg, last.db) = last.id

\* C2: xmldb_unlock_all(id) sets the holder to 0 on exactly the databases
\* held by id; the holders of other sessions, the set of registered
\* databases, the cached trees and the modified/empty/volatile flags stay.
C2_UnlockAllFrame ==
    [][last'.op = "unlock_all" =>
         /\ last'.ret = 0
         /\ DOMAIN reg' = DOMAIN reg
         /\ heap' = heap
         /\ \A d \in DOMAIN reg :
              /\ reg'[d].de_id = (IF reg[d].de_id = last'.id THEN 0 ELSE reg[d].de_id)
              /\ reg'[d].de_id # last'.id
              /\ reg'[d].de_xml = reg[d].de_xml
              /\ reg'[d].de_modified = reg[d].de_modified
              /\ reg'[d].de_empty = reg[d].de_empty
              /\ reg'[d].de_volatile = reg[d].de_volatile]_vars

\* An unlock_all that released a database and left one of another session
\* locked, with flags set and a tree cached
C2_Witness ==
    /\ last.op = "unlock_all" /\ last.old >= 1
    /\ \E d \in DOMAIN reg : reg[d].de_id # 0 /\ reg[d].de_id # last.id
    /\ \E d \in DOMAIN reg : reg[d].de_id = 0 /\ reg[d].de_volatile = 1 /\ reg[d].de_xml # NULL

\* C3 as stated: after a successful xmldb_create(db), db is registered, has
\* no cached tree and is unlocked.
C3_CreateRegisteredEmpty ==
    (last.op = "create" /\ last.ret = 0) =>
        /\ Registered(reg, last.db)
        /\ xmldb_cache_get(reg, last.db) = NULL
        /\ xmldb_islocked(reg, last.db) = 0

\* C3 amended: a successful xmldb_create(db) discards the cached tree of db
\* and nothing else of the registry: an unregistered db stays unregistered,
\* and the holder, timestamp and flags of a registered db are kept.
C3_CreateDropsCacheOnly ==
    [][(last'.op = "create" /\ last'.ret = 0) =>
         /\ xmldb_cache_get(reg', last'.db) = NULL
         /\ DOMAIN reg' = DOMAIN reg
         /\ \A d \in DOMAIN reg :
              reg'[d] = (IF d = last'.db THEN [reg[d] EXCEPT !.de_xml = NULL] ELSE reg[d])
         /\ xmldb_cache_get(reg, last'.db) # NULL =>
              ~heap'[xmldb_cache_get(reg, last'.db)].live]_vars

\* A create on a database that is still locked afterwards
C3_Witness == last.op = "create" /\ last.ret = 0 /\ last.old # 0
                /\ xmldb_islocked(reg, last.db) = last.old

\* C4 as stated: xmldb_delete(db) leaves the holder of db unchanged.
C4_DeleteKeepsLock ==
    last.op = "delete" => xmldb_islocked(reg, last.db) = last.old

\* C4 amended: xmldb_delete(db) releases the lock of db: through
\* xmldb_clear the holder, the timestamp and the modified flag of a
\* registered db become 0, and the cached tree is dropped.
C4_DeleteClearsLock ==
    (last.op = "delete" /\ last.ret = 0) =>
        /\ xmldb_islocked(reg, last.db) = 0
        /\ xmldb_cache_get(reg, last.db) = NULL
        /\ Registered(reg, last.db) =>
             reg[last.db].de_tv = 0 /\ reg[last.db].de_modified = 0

\* A delete of a database that was locked
C4_Witness == last.op = "delete" /\ last.ret = 0 /\ last.old # 0

\* C5 as stated: after a successful xmldb_create(db) the backing file exists
\* with zero length, xmldb_exists(db) is 0, and in multi-file mode the
\* directory exists.
C5_CreateTruncates ==
    (last.op = "create" /\ last.ret = 0) =>
        /\ FileOf(fs, multi, last.db).ex
        /\ Len(FileOf(fs, multi, last.db).data) = 0
        /\ xmldb_exists(fs, multi, last.db) = 0
        /\ multi => fs[last.db].dir

\* C5 amended: after a successful xmldb_create(db) the backing file exists:
\* with zero length if it did not exist, with its previous content if it
\* did, so xmldb_exists(db) is what it was before; in multi-file mode the
\* directory exists.
C5_CreateKeepsContent ==
    [][(last'.op = "create" /\ last'.ret = 0) =>
         /\ FileOf(fs', multi, last'.db).ex
         /\ FileOf(fs, multi, last'.db).ex =>
              FileOf(fs', multi, last'.db) = FileOf(fs, multi, last'.db)
         /\ ~FileOf(fs, multi, last'.db).ex => Len(FileOf(fs', multi, last'.db).data) = 0
         /\ xmldb_exists(fs', multi, last'.db) = xmldb_exists(fs, multi, last'.db)
         /\ multi => fs'[last'.db].dir]_vars

\* A create on a database whose file has content
C5_Witness == last.op = "create" /\ last.ret = 0 /\ xmldb_exists(fs, multi, last.db) = 1

\* C6 as stated: xmldb_db_reset(db) returns 0 and leaves db registered,
\* without cached tree, unlocked, with its backing file present and empty,
\* and a second reset returns 0 and changes nothing.
C6_ResetRegisteredEmpty ==
    last.op = "reset" =>
        LET r2 == xmldb_db_reset(reg, heap, fs, multi, last.db)
        IN /\ last.ret = 0
           /\ Registered(reg, last.db)
           /\ xmldb_cache_get(reg, last.db) = NULL
           /\ xmldb_islocked(reg, last.db) = 0
           /\ FileOf(fs, multi, last.db).ex /\ Len(FileOf(fs, multi, last.db).data) = 0
           /\ r2.ret = 0 /\ r2.reg = reg /\ r2.heap = heap /\ r2.fs = fs

\* C6 amended: xmldb_db_reset(db) returns 0 and leaves db without cached
\* tree and with its backing file present and empty; it does not register
\* an unregistered db, and it releases the lock only when the file had
\* content before the call (else the holder is kept); a second reset
\* returns 0 and changes nothing.
C6_ResetIdempotent ==
    [][last'.op = "reset" =>
         LET db == last'.db
             r2 == xmldb_db_reset(reg', heap', fs', multi', db)
         IN /\ last'.ret = 0
            /\ xmldb_cache_get(reg', db) = NULL
            /\ FileOf(fs', multi', db).ex /\ Len(FileOf(fs', multi', db).data) = 0
            /\ DOMAIN reg' = DOMAIN reg
            /\ xmldb_islocked(reg', db) =
                 (IF xmldb_exists(fs, multi, db) = 1 THEN 0 ELSE xmldb_islocked(reg, db))
            /\ r2.ret = 0 /\ r2.reg = reg' /\ r2.heap = heap' /\ r2.fs = fs']_vars

\* A reset of a locked database that kept its lock
C6_Witness == last.op = "reset" /\ last.old # 0 /\ xmldb_islocked(reg, last.db) = last.old

\* C7: after a successful xmldb_copy(A, B) between two databases where A has
\* a cached tree, the cached tree of B is another, live tree with the name
\* and children of A's tree, A's tree is untouched, and an edit of the
\* cached tree of one database changes the cached tree of no other.
C7_CopyFidelity ==
    [][/\ (last'.op = "copy" /\ last'.ret = 0 /\ last'.db # last'.to
             /\ xmldb_cache_get(reg, last'.db) # NULL) =>
            LET xa == xmldb_cache_get(reg, last'.db)
                xb == xmldb_cache_get(reg', last'.to)
            IN /\ xb # NULL /\ xb # xa
               /\ xmldb_cache_get(reg', last'.db) = xa
               /\ heap'[xb].live
               /\ heap'[xb].name = heap[xa].name
               /\ heap'[xb].kids = heap[xa].kids
               /\ heap'[xa] = heap[xa]
       /\ (last'.op = "put" /\ last'.ret = 0) =>
            \A d \in DOMAIN reg \ {last'.db} :
               reg[d].de_xml # NULL => heap'[reg[d].de_xml] = heap[reg[d].de_xml]]_vars

\* A copy of a tree with children to another database
C7_Witness ==
    /\ last.op = "copy" /\ last.ret = 0 /\ last.db # last.to
    /\ xmldb_cache_get(reg, last.db) # NULL
    /\ Len(heap[xmldb_cache_get(reg, last.db)].kids) > 0

C9_NoSharedTree ==
    ~ub => \A d1, d2 \in DOMAIN reg :
              (d1 # d2 /\ reg[d1].de_xml # NULL) => reg[d1].de_xml # reg[d2].de_xml

\* C10: xmldb_exists(db) returns 1 iff the file selected by the storage mode
\* is present with a size other than 0, else 0, and changes neither the
\* registry nor the trees nor the files.
C10_ExistsPure ==
    [][last'.op = "exists" =>
         LET fl == IF multi THEN fs[last'.db].root ELSE fs[last'.db].legacy
         IN /\ last'.ret = (IF fl.ex /\ Len(fl.data) > 0 THEN 1 ELSE 0)
            /\ reg' = reg /\ heap' = heap /\ fs' = fs /\ multi' = multi]_vars

\* xmldb_exists says 0 for a present but empty file of a locked database
\* that has a cached tree
C10_Witness ==
    /\ last.op = "exists" /\ last.ret = 0
    /\ FileOf(fs, multi, last.db).ex
    /\ xmldb_cache_get(reg, last.db) # NULL
    /\ xmldb_islocked(reg, last.db) # 0

\* C11: xmldb_delete(db) removes no file and no directory: after a
\* successful delete every file and directory that existed still exists (and
\* none was created), the backing file and, in multi-file mode, every
\* regular file of <db>.d has length 0, db has no cached tree, and
\* xmldb_exists(db) is 0.
C11_DeleteTruncates ==
    [][(last'.op = "delete" /\ last'.ret = 0) =>
         LET db == last'.db
         IN /\ fs'[db].legacy.ex = fs[db].legacy.ex
            /\ fs'[db].root.ex = fs[db].root.ex
            /\ fs'[db].aux.ex = fs[db].aux.ex
            /\ fs'[db].dir = fs[db].dir
            /\ \A d \in DBs \ {db} : fs'[d] = fs[d]
            /\ Len(FileOf(fs', multi, db).data) = 0
            /\ multi => Len(fs'[db].root.data) = 0 /\ Len(fs'[db].aux.data) = 0
            /\ xmldb_cache_get(reg', db) = NULL
            /\ xmldb_exists(fs', multi, db) = 0]_vars

\* A delete in multi-file mode of a database that was read before and has
\* an auxiliary file in <db>.d
C11_Witness ==
    /\ last.op = "delete" /\ last.ret = 0 /\ multi
    /\ Registered(reg, last.db)
    /\ fs[last.db].root.ex /\ fs[last.db].aux.ex /\ Len(fs[last.db].aux.data) = 0

\* C12 as stated: after xmldb_disconnect every registered database, and
\* after xmldb_delete(db) or xmldb_clear(db) the database db, has no cached
\* tree and lock holder 0.
C12_ReleaseClearsId ==
    /\ last.op = "disconnect" =>
          \A d \in DOMAIN reg : reg[d].de_xml = NULL /\ reg[d].de_id = 0
    /\ last.op \in {"delete", "clear"} =>
          xmldb_cache_get(reg, last.db) = NULL /\ xmldb_islocked(reg, last.db) = 0

\* C12 amended: xmldb_disconnect frees the cached tree of every registered
\* database and keeps its lock holder, timestamp and flags; xmldb_delete(db)
\* and xmldb_clear(db) leave db without cached tree and with holder 0.
C12_DisconnectKeepsLock ==
    [][/\ last'.op = "disconnect" =>
            /\ last'.ret = 0
            /\ DOMAIN reg' = DOMAIN reg
            /\ \A d \in DOMAIN reg : reg'[d] = [reg[d] EXCEPT !.de_xml = NULL]
            /\ \A a \in Addrs : ~heap'[a].live
       /\ last'.op \in {"delete", "clear"} =>
            xmldb_cache_get(reg', last'.db) = NULL /\ xmldb_islocked(reg', last'.db) = 0]_vars

\* A disconnect after which a database is still locked
C12_Witness ==
    /\ last.op = "disconnect"
    /\ \E d \in DOMAIN reg : reg[d].de_id # 0 /\ reg[d].de_xml = NULL

FlagGets == {"modified_get", "empty_get", "volatile_get"}
FlagSets == {"modified_set", "empty_set", "volatile_set"}

\* C13: the getters and setters of the modified, empty and volatile flags,
\* called with a name that has no registry entry, return -1 and leave the
\* registry as it is: no entry is created.
C13_FlagsNeedEntry ==
    [][(last'.op \in FlagGets \cup FlagSets /\ ~Registered(reg, last'.db)) =>
         /\ last'.ret = -1
         /\ reg' = reg
         /\ ~Registered(reg', last'.db)
         /\ heap' = heap /\ fs' = fs]_vars

\* A setter refused for an unregistered database while another database is
\* registered
C13_Witness ==
    /\ last.op = "empty_set" /\ last.id = 1 /\ last.ret = -1
    /\ ~Registered(reg, last.db)
    /\ DOMAIN reg # {}

\* C14: for a registered db, xmldb_X_set(db, v) returns 0 and makes
\* xmldb_X_get(db) return v; the other two flags, the holder, the timestamp
\* and the cached tree of db, and every other database, stay as they were.
C14_FlagsIndependent ==
    [][(last'.op \in FlagSets /\ Registered(reg, last'.db)) =>
         LET db == last'.db
             v == last'.id
         IN /\ last'.ret = 0
            /\ last'.op = "modified_set" =>
                 xmldb_modified_get(reg', db) = v /\ reg' = [reg EXCEPT ![db].de_modified = v]
            /\ last'.op = "empty_set" =>
                 xmldb_empty_get(reg', db) = v /\ reg' = [reg EXCEPT ![db].de_empty = v]
            /\ last'.op = "volatile_set" =>
                 xmldb_volatile_get(reg', db) = v /\ reg' = [reg EXCEPT ![db].de_volatile = v]
            /\ heap' = heap /\ fs' = fs]_vars

\* The volatile flag set on a locked database with a cached tree whose empty
\* flag is set and whose modified flag is not, the other database registered
C14_Witness ==
    /\ last.op = "volatile_set" /\ last.id = 1 /\ last.ret = 0
    /\ Registered(reg, last.db)
    /\ reg[last.db].de_volatile = 1 /\ reg[last.db].de_empty = 1
    /\ reg[last.db].de_modified = 0
    /\ reg[last.db].de_id # 0 /\ reg[last.db].de_xml # NULL
    /\ DOMAIN reg = DBs

\* C15: xmldb_populate(db) returns -1 without calling anything when db has
\* no cached tree; otherwise its first call is the bind, its return value is
\* -1, 0 or 1 and is the bind outcome unless a default step failed; the
\* global defaults and then the recursive defaults are injected only after
\* a bind outcome of 1, never after 0 or a failed bind.
C15_PopulateOrder ==
    last.op = "populate" =>
        LET bind == last.id
            c == last.calls
        IN /\ xmldb_cache_get(reg, last.db) = NULL => last.ret = -1 /\ c = <<>>
           /\ xmldb_cache_get(reg, last.db) # NULL =>
                /\ Len(c) >= 1 /\ c[1] = "xml_bind_yang"
                /\ last.ret \in {-1, 0, 1}
                /\ bind # 1 => c = <<"xml_bind_yang">> /\ last.ret = bind
                /\ bind = 1 =>
                     /\ Len(c) >= 2 /\ c[2] = "xml_global_defaults"
                     /\ Len(c) >= 3 => c = <<"xml_bind_yang", "xml_global_defaults",
                                               "xml_default_recurse">>
                     /\ last.ret = (IF last.old < 0 THEN -1 ELSE 1)
                     /\ last.ret = 1 => Len(c) = 3

\* A populate of a cached tree whose bind said 0: no defaults injected
C15_Witness ==
    /\ last.op = "populate" /\ last.id = 0 /\ last.ret = 0
    /\ xmldb_cache_get(reg, last.db) # NULL
    /\ last.calls = <<"xml_bind_yang">>

C17_UpgradeAdditive ==
    [][last'.op = "upgrade" =>
         /\ fs[last'.db].legacy.ex => fs'[last'.db].legacy = fs[last'.db].legacy
         /\ fs'[last'.db].legacy.data = fs[last'.db].legacy.data
         /\ \A d \in DBs : fs[d].legacy.ex => fs'[d].legacy = fs[d].legacy]_vars

\* After a migration both the legacy file and <db>.d/0.xml hold the document
C17_Witness ==
    /\ last.op = "upgrade" /\ last.ret = 0 /\ multi
    /\ fs[last.db].dir /\ fs[last.db].root.ex
    /\ fs[last.db].legacy.ex /\ fs[last.db].legacy.data = fs[last.db].root.data
    /\ Len(fs[last.db].legacy.data) > 1

\* C18: xmldb_rename(db, NULL, NULL) is a no-op that returns 0: no file is
\* renamed and no error is reported.
C18_RenameNoOp ==
    [][(last'.op = "rename" /\ last'.id = 0) =>
         last'.ret = 0 /\ fs' = fs /\ reg' = reg /\ heap' = heap]_vars

\* C19: after any sequence of xml_nsctx_init and xml_nsctx_add calls the
\* context holds at most one entry per prefix (the absent prefix is one
\* prefix), and xml_nsctx_get(ctx, p) is the URI most recently added for p,
\* or NULL when p was not added since the init.
C19_OneEntryPerPrefix ==
    /\ \A i, j \in 1..Len(nsc) : i # j => nsc[i].name # nsc[j].name
    /\ \A q \in Prefixes : xml_nsctx_get(nsc, q) = nshist.cur[q]
    /\ last.op = "nsctx_get" => last.ret = nshist.cur[last.id]

\* The URI of the absent prefix replaced by another one in a context that
\* holds a second prefix
C19_Witness ==
    /\ last.op = "nsctx_add" /\ last.id = NULL
    /\ last.calls[1] # NULL /\ last.calls[1] # last.old
    /\ Len(nsc) >= 2
    /\ xml_nsctx_get(nsc, NULL) = last.old

\* The answer of the reverse lookup according to what was added: the first
\* prefix, in the order of first adds, whose last added URI is ns
NsFirstPrefix(ns) ==
    LET hits == {i \in 1..Len(nshist.order) : nshist.cur[nshist.order[i]] = ns}
    IN IF hits = {} THEN [ret |-> 0, prefix |-> NULL]
       ELSE [ret |-> 1,
             prefix |-> nshist.order[CHOOSE i \in hits : \A j \in hits : i <= j]]

\* C20: xml_nsctx_get_prefix(ctx, uri) returns 1 with the prefix (NULL for
\* the absent prefix) of the first entry in insertion order whose current
\* URI is uri, and 0 with prefix NULL when no entry has that URI; an entry
\* whose URI was replaced keeps its place in that order.
C20_FirstPrefix ==
    /\ \A u \in Uris : xml_nsctx_get_prefix(nsc, u) = NsFirstPrefix(u)
    /\ \A i \in 1..Len(nsc) : nsc[i].name = nshist.order[i]
    /\ last.op = "nsctx_get_prefix" =>
          last.ret = NsFirstPrefix(last.old).ret
          /\ last.calls = <<NsFirstPrefix(last.old).prefix>>

\* A reverse lookup that two prefixes match: it yields the absent prefix,
\* which was added first and whose URI was replaced since
C20_Witness ==
    /\ last.op = "nsctx_get_prefix" /\ last.ret = 1 /\ last.calls = <<NULL>>
    /\ NULL \in nshist.repl
    /\ Len(nsc) >= 2 /\ nsc[1].name = NULL
    /\ nsc[1].val = last.old /\ nsc[2].val = last.old

\* The elements from x up to the top that declare prefix p
XDeclaring(t, x, p) == {m \in 1..x : \E i \in 1..Len(t[m].attrs) : t[m].attrs[i].pf = p}

\* The namespace of p at x as the declarations give it: that of the
\* declaration nearest to x, the base namespace for the absent prefix in
\* default-namespace mode when nothing declares it, none otherwise
RefNs(t, dflt, x, p) ==
    IF XDeclaring(t, x, p) # {}
    THEN xml_find_type_value(t, CHOOSE m \in XDeclaring(t, x, p) :
                                    \A k \in XDeclaring(t, x, p) : k <= m, p)
    ELSE IF dflt /\ p = NULL THEN NETCONF_BASE_NAMESPACE ELSE NULL

\* C21: xml_nsctx_node(x) gives a context that binds every prefix (the
\* absent one included) declared on the path from x to the root to the value
\* of the declaration nearest to x; the absent prefix, when no element of
\* the path declares it, is bound to the NETCONF base namespace in
\* default-namespace mode and unbound otherwise; nothing else is bound.
C21_NodeContext ==
    [][last'.op = "xml_nsctx_node" =>
          /\ last'.ret = 0
          /\ \A p \in XPrefixes : xml_nsctx_get(nsc', p) = RefNs(xtree, nsdefault, last'.old, p)
          /\ \A i \in 1..Len(nsc') :
                /\ nsc'[i].name \in XPrefixes
                /\ \A j \in 1..Len(nsc') : nsc'[j].name = nsc'[i].name => j = i]_vars

\* A context of the inner element whose prefix is declared on both elements
\* with different values, and whose default namespace comes from the mode
C21_Witness ==
    /\ last.op = "xml_nsctx_node" /\ last.old = 2 /\ nsdefault
    /\ xml_find_type_value(xtree, 1, 1) # NULL
    /\ xml_find_type_value(xtree, 2, 1) # NULL
    /\ xml_find_type_value(xtree, 1, 1) # xml_find_type_value(xtree, 2, 1)
    /\ xml_nsctx_get(nsc, 1) = xml_find_type_value(xtree, 2, 1)
    /\ xml_nsctx_get(nsc, NULL) = NETCONF_BASE_NAMESPACE

\* The loaded modules that declare prefix p and have a namespace
YDeclaring(ys, p) == {m \in 1..Len(ys) : ys[m].prefix = p /\ ys[m].prefix # NULL /\ ys[m].ns # NULL}

\* C22 as claimed: xml_nsctx_yangspec(yspec) yields a context where, for
\* every loaded module m, the prefix of m is bound to the namespace of m,
\* and where the absent prefix and "nc" are bound to the NETCONF base
\* namespace.
C22_EveryModule ==
    [][last'.op = "xml_nsctx_yangspec" =>
          /\ \A p \in Prefixes : \A m \in YDeclaring(yspec, p) :
                xml_nsctx_get(nsc', p) = yspec[m].ns
          /\ xml_nsctx_get(nsc', NULL) = NETCONF_BASE_NAMESPACE
          /\ xml_nsctx_get(nsc', NETCONF_BASE_PREFIX) = NETCONF_BASE_NAMESPACE]_vars

\* C22: xml_nsctx_yangspec(yspec) returns 0 with a context that has one
\* entry per prefix: the absent prefix and "nc" are bound to the NETCONF base
\* namespace; every other prefix that a loaded module with a namespace
\* declares is bound to the namespace of the last such module of yspec; a
\* prefix no such module declares keeps the binding of the context handed
\* in, and is unbound when none was handed in.
C22_LastModulePerPrefix ==
    [][last'.op = "xml_nsctx_yangspec" =>
          /\ last'.ret = 0
          /\ \A p \in Prefixes :
                xml_nsctx_get(nsc', p) =
                    IF p = NULL \/ p = NETCONF_BASE_PREFIX THEN NETCONF_BASE_NAMESPACE
                    ELSE IF YDeclaring(yspec, p) # {}
                    THEN yspec[CHOOSE m \in YDeclaring(yspec, p) :
                                   \A k \in YDeclaring(yspec, p) : k <= m].ns
                    ELSE IF last'.id = 1 THEN xml_nsctx_get(nsc, p) ELSE NULL
          /\ \A i, j \in 1..Len(nsc') : nsc'[j].name = nsc'[i].name => j = i]_vars

\* A context built from two modules that declare the same prefix with
\* different namespaces: the prefix is bound to the namespace of the second
C22_Witness ==
    /\ last.op = "xml_nsctx_yangspec" /\ Len(yspec) = 2
    /\ yspec[1].prefix = yspec[2].prefix /\ yspec[1].prefix \notin {NULL, NETCONF_BASE_PREFIX}
    /\ yspec[1].ns # NULL /\ yspec[2].ns # NULL /\ yspec[1].ns # yspec[2].ns
    /\ xml_nsctx_get(nsc, yspec[2].prefix) = yspec[2].ns

\* The import statements of module yn that name a prefix and a loaded
\* module with a namespace
YBinding(ys, yn) ==
    {i \in 1..Len(ys[yn].imports) :
        /\ ys[yn].imports[i].prefix # NULL
        /\ YLoaded(ys, ys[yn].imports[i].name)
        /\ ys[ys[yn].imports[i].name].ns # NULL}

\* C23: for a statement yn of a module whose prefixes are distinct, as YANG
\* requires, xml_nsctx_yang(yn) returns 0 with a context that binds the
\* module's own prefix (and the absent prefix) to the module's namespace
\* and, for every import statement of the module, the import's prefix to the
\* namespace of the imported module, and nothing else; it returns -1 and
\* hands back no context when yn is the yang spec or belongs to no module,
\* or when its module has no prefix or no namespace.
C23_YangContext ==
    [][last'.op = "xml_nsctx_yang" =>
          LET yn == last'.old
          IN IF ~YLoaded(yspec, yn) \/ yang_find_myprefix(yspec, yn) = NULL
                \/ yang_find_mynamespace(yspec, yn) = NULL
             THEN last'.ret = -1 /\ nsc' = nsc
             ELSE /\ last'.ret = 0
                  /\ xml_nsctx_get(nsc', yspec[yn].prefix) = yspec[yn].ns
                  /\ xml_nsctx_get(nsc', NULL) = yspec[yn].ns
                  /\ \A i \in YBinding(yspec, yn) :
                        xml_nsctx_get(nsc', yspec[yn].imports[i].prefix) =
                            yspec[yspec[yn].imports[i].name].ns
                  /\ \A e \in 1..Len(nsc') :
                        \/ nsc'[e].name \in {NULL, yspec[yn].prefix}
                        \/ \E i \in YBinding(yspec, yn) :
                              nsc'[e].name = yspec[yn].imports[i].prefix]_vars

\* A context of a module that imports a loaded module with another
\* namespace and another prefix: the context binds both prefixes
C23_Witness ==
    /\ last.op = "xml_nsctx_yang" /\ last.ret = 0 /\ last.old = 1
    /\ Len(yspec) = 2 /\ Len(yspec[1].imports) >= 1
    /\ yspec[1].imports[1].name = 2 /\ yspec[1].imports[1].prefix # NULL
    /\ yspec[2].ns \notin {NULL, yspec[1].ns}
    /\ yspec[2].prefix \notin {NULL, yspec[1].imports[1].prefix}
    /\ xml_nsctx_get(nsc, yspec[1].imports[1].prefix) = yspec[2].ns
    /\ xml_nsctx_get(nsc, yspec[1].prefix) = yspec[1].ns

\* No element of the tree has a cached namespace
XNoCache(t) == \A n \in XNodes : t[n].cache = <<>>

\* C24: starting from empty caches, xml2ns(x, prefix) returns 0 and hands
\* back the value of the nearest xmlns[:prefix] declaration on the path from
\* x to the root; when no element of the path declares the prefix it hands
\* back the NETCONF base namespace if default-namespace mode is enabled and
\* the prefix is absent, and no namespace in every other case.
C24_NearestDeclaration ==
    [][last'.op = "xml2ns" /\ XNoCache(xtree) =>
          /\ last'.ret = 0
          /\ last'.calls = <<RefNs(xtree, nsdefault, last'.old, last'.id)>>]_vars

\* The first lookup in a tree: a prefix that both elements declare, with
\* different values, looked up from the inner element gives the inner value
C24_Witness ==
    /\ last.op = "xml2ns" /\ last.old = 2 /\ last.id = 1
    /\ xml_find_type_value(xtree, 1, 1) # NULL
    /\ xml_find_type_value(xtree, 2, 1) # NULL
    /\ xml_find_type_value(xtree, 1, 1) # xml_find_type_value(xtree, 2, 1)
    /\ last.calls = <<xml_find_type_value(xtree, 2, 1)>>
    /\ xtree[1].cache = <<>>
    /\ xtree[2].cache \in {<<>>, <<[name |-> 1, val |-> xml_find_type_value(xtree, 2, 1)]>>}

\* C25 as claimed: xml2ns on a root element without xmlns declarations,
\* with default-namespace mode disabled, returns an error, distinct from
\* the return value 0 of a successful call.
C25_NotFoundIsError ==
    [][/\ last'.op = "xml2ns" /\ xml_parent(last'.old) = NULL
       /\ xtree[last'.old].attrs = <<>> /\ ~nsdefault
       => last'.ret < 0]_vars

\* C25: xml2ns on a root element without xmlns declarations, with
\* default-namespace mode disabled, returns 0, the value of a successful
\* call, and hands back no namespace (NULL), for the absent prefix and for
\* any prefix; it leaves the tree and its caches as they were.
C25_NotFoundIsNull ==
    [][/\ last'.op = "xml2ns" /\ xml_parent(last'.old) = NULL
       /\ xtree[last'.old].attrs = <<>> /\ ~nsdefault
       => last'.ret = 0 /\ last'.calls = <<NULL>> /\ xtree' = xtree]_vars

\* A lookup of the absent prefix on a root element without declarations,
\* default-namespace mode disabled: no namespace
C25_Witness ==
    /\ last.op = "xml2ns" /\ last.old = 1 /\ last.id = NULL
    /\ xtree[1].attrs = <<>> /\ ~nsdefault
    /\ last.ret = 0 /\ last.calls = <<NULL>>

\* C26: after any sequence of xml2ns and xml2prefix calls on the elements
\* of a tree whose structure does not change, xml2ns(x, p) hands back the
\* namespace that a walk over the declarations from x to the root gives,
\* whatever the caches hold.
C26_CacheTransparent ==
    [][last'.op = "xml2ns" =>
          last'.calls = <<RefNs(xtree, nsdefault, last'.old, last'.id)>>]_vars

\* C27: right after xmlns_set(x, p, u), and right after
\* xml_add_namespace(x, xp, p, u) with xp being x or an ancestor of x,
\* xml2ns(x, p) returns 0 and hands back u, for every prefix p (the absent
\* one included) and whatever declarations and cache entries x and its
\* ancestors had before.
C27_DeclareThenResolve ==
    [][last'.op \in {"xmlns_set", "xml_add_namespace", "xml_add_namespace_parent"} =>
          /\ xml2ns(xtree', nsdefault, last'.old, last'.id).ret = 0
          /\ <<xml2ns(xtree', nsdefault, last'.old, last'.id).ns>> = last'.calls]_vars

\* A second declaration of a prefix on an element that already declares it
\* with another namespace: the lookup gives the namespace just set
C27_Witness ==
    /\ last.op = "xmlns_set"
    /\ Len(xtree[last.old].attrs) = 2
    /\ xtree[last.old].attrs[1].pf = last.id /\ xtree[last.old].attrs[2].pf = last.id
    /\ <<xtree[last.old].attrs[1].val>> # last.calls
    /\ <<xtree[last.old].attrs[2].val>> = last.calls
    /\ <<xml2ns(xtree, nsdefault, last.old, last.id).ns>> = last.calls

\* The places of the attributes of element m whose value is ns
XValued(t, m, ns) == {i \in 1..Len(t[m].attrs) : t[m].attrs[i].val = ns}

\* The elements from x up to the top that carry an attribute of value ns
XCarrying(t, x, ns) == {m \in 1..x : XValued(t, m, ns) # {}}

\* The elements from x up to the top that carry such an attribute or hold ns
\* in their cache
XKnowing(t, x, ns) ==
    {m \in 1..x : XValued(t, m, ns) # {} \/ \E i \in 1..Len(t[m].cache) : t[m].cache[i].val = ns}

\* The prefix of the first matching attribute of m
XFirstPrefix(t, m, ns) ==
    t[m].attrs[CHOOSE i \in XValued(t, m, ns) : \A j \in XValued(t, m, ns) : i <= j].pf

\* C28 as claimed: xml2prefix(x, ns) returns 1 iff some element on the path
\* from x to the root carries an xmlns or xmlns:p attribute of value ns, and
\* then gives the prefix of the first matching attribute of the nearest
\* such element; it returns 0 when no element does.
C28_AttributesDecide ==
    [][last'.op = "xml2prefix" =>
          LET C == XCarrying(xtree, last'.old, last'.id)
          IN IF C = {} THEN last'.ret = 0
             ELSE /\ last'.ret = 1
                  /\ last'.calls =
                        <<XFirstPrefix(xtree, CHOOSE m \in C : \A k \in C : k <= m, last'.id)>>]_vars

\* C28: xml2prefix(x, ns) looks, from x towards the root, for the nearest
\* element that holds ns in its namespace cache or carries an xmlns or
\* xmlns:p attribute of value ns.  With such an element it returns 1 and
\* gives the prefix of the first cache entry for ns of that element or,
\* when its cache has none, of its first matching attribute (NULL for a
\* default declaration), and afterwards the caches of x and of every element
\* up to that one bind this prefix to ns; without such an element it
\* returns 0 and changes nothing.  It never returns -1 here, no attribute changes,
\* and with all caches empty the result is what the attributes alone give.
C28_CacheThenAttributes ==
    [][last'.op = "xml2prefix" =>
          LET x == last'.old
              ns == last'.id
              K == XKnowing(xtree, x, ns)
              m == CHOOSE n \in K : \A k \in K : k <= n
              pf == IF nscache_get_prefix(xtree, m, ns).ret = 1
                    THEN nscache_get_prefix(xtree, m, ns).prefix
                    ELSE XFirstPrefix(xtree, m, ns)
          IN /\ \A n \in XNodes : xtree'[n].attrs = xtree[n].attrs /\ xtree'[n].prefix = xtree[n].prefix
             /\ IF K = {} THEN last'.ret = 0 /\ last'.calls = <<NULL>> /\ xtree' = xtree
                ELSE /\ last'.ret = 1 /\ last'.calls = <<pf>>
                     /\ \A n \in m..x : xml_nsctx_get(xtree'[n].cache, pf) = ns
                     /\ \A n \in XNodes \ (m..x) : xtree'[n] = xtree[n]
             /\ XNoCache(xtree) => K = XCarrying(xtree, x, ns)]_vars

\* A namespace that only the outer element declares, asked for at the inner
\* element: found, and both caches hold the pair afterwards
C28_Witness ==
    /\ last.op = "xml2prefix" /\ last.old = 2 /\ last.ret = 1
    /\ XCarrying(xtree, 2, last.id) = {1}
    /\ last.calls = <<XFirstPrefix(xtree, 1, last.id)>>
    /\ xml_nsctx_get(xtree[1].cache, last.calls[1]) = last.id
    /\ xml_nsctx_get(xtree[2].cache, last.calls[1]) = last.id

\* C29: xml2ns_recurse(xt) returns 1 when the prefix of every prefixed
\* descendant element of xt has a namespace, and 0 when the prefix of some
\* descendant element has none.
C29_RecurseTriState ==
    [][last'.op = "xml2ns_recurse" =>
          IF \A n \in XNodes : n > last'.old /\ xtree[n].prefix # NULL =>
                 RefNs(xtree, nsdefault, n, xtree[n].prefix) # NULL
          THEN last'.ret = 1
          ELSE last'.ret = 0]_vars

\* C30: in the option store and in the data store, reading key k gives the
\* value of the most recent set of k that no delete of k followed; after a
\* delete of k the key is absent (clicon_option_exists returns 0,
\* clicon_option_str returns NULL, clicon_data_get returns -1); and a set or
\* delete of k changes no other key, nor the other store.
C30_LastWriteWins ==
    [][last'.op \in {"set", "del", "exists", "str", "get"} =>
          /\ \A k \in HashKeys :
                /\ clicon_option_str(copt', k) = sethist'.opt[k]
                /\ clicon_option_exists(copt', k) = (IF sethist'.opt[k] = NULL THEN 0 ELSE 1)
                /\ clicon_data_get(cdat', k).val = sethist'.dat[k]
                /\ clicon_data_get(cdat', k).ret = (IF sethist'.dat[k] = NULL THEN -1 ELSE 0)
                /\ k # last'.id =>
                      /\ clicon_option_str(copt', k) = clicon_option_str(copt, k)
                      /\ clicon_data_get(cdat', k) = clicon_data_get(cdat, k)
          /\ last'.db = "option" => cdat' = cdat
          /\ last'.db = "data" => copt' = copt
          /\ last'.op = "exists" =>
                last'.ret = (IF sethist.opt[last'.id] = NULL THEN 0 ELSE 1)
          /\ last'.op = "str" => last'.calls = <<sethist.opt[last'.id]>>
          /\ last'.op = "get" =>
                /\ last'.calls = <<sethist.dat[last'.id]>>
                /\ last'.ret = (IF sethist.dat[last'.id] = NULL THEN -1 ELSE 0)]_vars

\* An option that a set gave a second value, read back with that value,
\* next to an option that is absent after a delete
C30_Witness ==
    /\ last.op = "str" /\ last.id = 1 /\ last.calls = <<2>>
    /\ <<"option", 1>> \in sethist.over /\ <<"option", 2>> \in sethist.over
    /\ sethist.opt[1] = 2 /\ sethist.opt[2] = NULL
    /\ clicon_option_exists(copt, 2) = 0
    /\ sethist.dat[1] = 1 /\ clicon_data_get(cdat, 2).ret = -1

\* The fields of a database element other than its cached tree
DeRest(de) == <<de.de_id, de.de_tv, de.de_modified, de.de_empty, de.de_volatile>>

\* C31: xmldb_copy(from, to) replaces only the cached tree of `to`: the lock
\* holder, lock timestamp and flags of `to` are those it had before (all zero
\* if it was unregistered, and a copy that succeeds registers it), and the
\* registry entries of every other database, `from` included, are unchanged.
C31_CopyFrame ==
    [][last'.op = "copy" =>
         LET from == last'.db
             to == last'.to
         IN /\ Registered(reg', to) =>
                   DeRest(reg'[to]) = DeRest(clicon_db_elmnt_get(reg, to))
            /\ last'.ret = 0 => Registered(reg', to)
            /\ \A d \in DBs \ {to} :
                   /\ Registered(reg', d) <=> Registered(reg, d)
                   /\ Registered(reg, d) => reg'[d] = reg[d]]_vars

\* A successful copy from a database whose lock and flags differ from those
\* of the target, which is locked and flagged itself
C31_Witness ==
    /\ last.op = "copy" /\ last.ret = 0 /\ last.db # last.to
    /\ Registered(reg, last.db) /\ Registered(reg, last.to)
    /\ reg[last.to].de_id # 0 /\ reg[last.to].de_modified = 1
    /\ reg[last.db].de_id # reg[last.to].de_id
    /\ reg[last.db].de_modified = 0
    /\ reg[last.to].de_xml # NULL

\* C32: after an xmldb_copy that fails, the element of `to` has no cached
\* tree or a tree that is still allocated; it never references a freed tree.
C32_FailedCopySafe ==
    [][(last'.op = "copy" /\ last'.ret # 0 /\ ~ub') =>
         LET x2 == xmldb_cache_get(reg', last'.to)
         IN x2 = NULL \/ heap'[x2].live]_vars

\* C33: xmldb_copy(db, db) on a database with a cached tree reads no tree
\* after it was freed, and when it returns 0 the database has a live cached
\* tree with the content it had before.
C33_SelfCopySafe ==
    [][(last'.op = "copy" /\ last'.db = last'.to
          /\ xmldb_cache_get(reg, last'.db) # NULL) =>
         LET x1 == xmldb_cache_get(reg, last'.db)
             x2 == xmldb_cache_get(reg', last'.db)
         IN /\ ~ub'
            /\ last'.ret = 0 =>
                  /\ x2 # NULL /\ heap'[x2].live
                  /\ heap'[x2].kids = heap[x1].kids]_vars

\* C34: no call of the datastore API removes a name from the registry, and
\* xmldb_disconnect keeps every element with its lock holder, timestamp and
\* flags and only takes away the cached trees.
C34_RegistryGrows ==
    [][/\ DOMAIN reg \subseteq DOMAIN reg'
       /\ last'.op = "disconnect" =>
             \A d \in DOMAIN reg :
                 /\ DeRest(reg'[d]) = DeRest(reg[d])
                 /\ reg'[d].de_xml = NULL]_vars

\* A disconnect with two registered databases, one of them locked and
\* flagged
C34_Witness ==
    /\ last.op = "disconnect"
    /\ DOMAIN reg = DBs
    /\ \E d \in DOMAIN reg :
          reg[d].de_id # 0 /\ reg[d].de_volatile = 1 /\ reg[d].de_modified = 1

\* C35: whenever xml2prefix(x, ns) returns 1 with prefix p, the declaration
\* of p nearest to x on the path from x to the root has the value ns.
C35_PrefixBindsNs ==
    [][(last'.op = "xml2prefix" /\ last'.ret = 1) =>
          RefNs(xtree, FALSE, last'.old, last'.calls[1]) = last'.id]_vars

\* C36: for v in {0, 1}, right after clicon_option_bool_set(h, name, v),
\* clicon_option_bool(h, name) returns v.
C36_BoolRoundTrip ==
    [][last'.op = "bool_set" =>
          clicon_option_bool(copt', last'.id) = last'.old]_vars

\* C37: for every int v, right after clicon_option_int_set(h, name, v),
\* clicon_option_int(h, name) returns v, and clicon_quiet_mode(h) returns v
\* right after clicon_quiet_mode_set(h, v), on every build.
C37_IntRoundTrip ==
    [][/\ last'.op = "int_set" =>
             \A lp64 \in BOOLEAN : clicon_option_int(copt', last'.id, lp64) = last'.old
       /\ last'.op = "quiet_mode_set" =>
             \A lp64 \in BOOLEAN : clicon_quiet_mode(copt', lp64) = last'.old]_vars

\* C38: after any sequence of clicon_modst_cache_set calls,
\* clicon_modst_cache_get never returns a tree that was freed, no set frees
\* a tree twice, and after clicon_modst_cache_set(h, brief, NULL) the get of
\* that cache returns NULL.
C38_ModstCacheSafe ==
    [][/\ last'.op = "modst_get" => (last'.ret = NULL \/ heap[last'.ret].live)
       /\ last'.op = "modst_set" =>
             /\ ~ub'
             /\ last'.old = 0 => clicon_modst_cache_get(cdat', last'.id) = NULL]_vars

\* C39: xmlns_set_all(x, nsc) keeps the declarations x has and appends one
\* declaration for each entry of nsc whose prefix no attribute of x
\* declared, with the value of that entry, and nothing else; the other
\* elements keep their attributes; a second call with the same nsc adds
\* no attribute.
C39_SetAllMissing ==
    [][last'.op = "xmlns_set_all" =>
          LET x == last'.old
              a == xtree[x].attrs
              b == xtree'[x].attrs
              missing == {i \in 1..Len(nsc') : xml_find_type_value(xtree, x, nsc'[i].name) = NULL}
          IN /\ last'.ret = 0
             /\ Len(b) = Len(a) + Cardinality(missing)
             /\ SubSeq(b, 1, Len(a)) = a
             /\ {b[k] : k \in (Len(a) + 1)..Len(b)} =
                   {[pf |-> nsc'[i].name, val |-> nsc'[i].val] : i \in missing}
             /\ \A p \in XPrefixes : xml_find_type_value(xtree, x, p) # NULL =>
                   xml_find_type_value(xtree', x, p) = xml_find_type_value(xtree, x, p)
             /\ \A n \in XNodes \ {x} : xtree'[n].attrs = xtree[n].attrs
             /\ \A n \in XNodes :
                   xmlns_set_all(xtree', x, nsc')[n].attrs = xtree'[n].attrs]_vars

\* A call with a context of two entries on an element that declared one of
\* the two prefixes with another value: one declaration kept, one added
C39_Witness ==
    /\ last.op = "xmlns_set_all"
    /\ Len(nsc) = 2
    /\ Len(xtree[last.old].attrs) = 2
    /\ \E i \in 1..2 : xml_find_type_value(xtree, last.old, nsc[i].name) # nsc[i].val
    /\ \E i \in 1..2 : xtree[last.old].attrs[2] = [pf |-> nsc[i].name, val |-> nsc[i].val]

====
